---- MODULE Spec2Model ----
(***************************************************************************)
(* Caching and request-coordination layer of the Numerai model reviewer:   *)
(*   - SWRCache   (client-side stale-while-revalidate cache),              *)
(*   - ServerCache (server-side TTL response cache with LRU eviction),     *)
(*   - checkRateLimit of the Cloudflare worker (KV + in-memory fallback).  *)
(* Each store is an independent state machine with its own specification:  *)
(* SpecSWR, SpecSC and SpecRL (SpecRLKV: the KV-bound deployments only).   *)
(* Durations and capacities are scaled to small integers that keep the     *)
(* order of the source's defaults.                                         *)
(***************************************************************************)
EXTENDS Integers, Sequences, FiniteSets, Bags, TLC

(***************************************************************************)
(* Bounds of the model                                                     *)
(***************************************************************************)
MaxTime == 8
MaxRequests == 2

(***************************************************************************)
(* SWRCache: options (DEFAULT_OPTIONS, scaled: 2 s < 5 min < 30 min)       *)
(***************************************************************************)
StaleTime == 3
CacheTime == 5
DedupingInterval == 2

Keys == {"k1", "k2"}
\* values a producer can resolve to; "falsy" stands for null, 0, false, ''
Values == {"a", "b", "falsy"}
Undefined == "undefined"
NoError == "null"
Errors == {"e1"}
NoReq == 0
SubStartTime == MaxTime - DedupingInterval

Truthy(v) == v \notin {"falsy", Undefined}

\* DEFAULT_OPTIONS, and the options a caller can hand to the constructor
DefaultOptions == [staleTime |-> StaleTime, cacheTime |-> CacheTime]

OptionNames == {"staleTime", "cacheTime"}

Durations == 0..(CacheTime + 1)

GivenOptions == UNION {[names -> Durations] : names \in SUBSET OptionNames}

\* { ...DEFAULT_OPTIONS, ...options }
Construct(given) ==
    [n \in OptionNames |-> IF n \in DOMAIN given THEN given[n] ELSE DefaultOptions[n]]

\* the callbacks handed to subscribe; each returns normally and calls nothing
Listeners == {"L1", "L2"}

\* the prefix cacheKeys gives each key (userSearch, modelPerformance)
KeyPrefix == [k \in Keys |-> IF k = "k1" THEN "user-search:" ELSE "model-performance:"]

\* the patterns /^user-search:/, /^model-performance:/, /^account-profile:/ and /./
AnyKey == "."
Patterns == {"user-search:", "model-performance:", "account-profile:", AnyKey}

\* pattern.test(key)
Matches(p, k) == p = AnyKey \/ KeyPrefix[k] = p

VARIABLES
    now,               \* Date.now()
    cache,             \* SWRCache.cache
    inflightRequests,  \* SWRCache.inflightRequests (key -> request id)
    lastFetchTime,     \* SWRCache.lastFetchTime (missing key = 0)
    requests,          \* the promise chains built by fetch that have not finished
    lastOp,            \* the operation of the last step and what it returned
    usedKeys,          \* the cache keys the callers of this run use
    options,           \* this.options: staleTime and cacheTime of the SWRCache
    subscribers,       \* SWRCache.subscribers: the callbacks of each key
    notified,          \* the (key, callback) pairs the latest step called
    registered,        \* per key and callback: never subscribed, subscribed, unsubscribed
    scNow,             \* Date.now() of the server
    scCache,           \* ServerCache.cache
    accessOrder,       \* ServerCache.accessOrder
    scOp,              \* the ServerCache operation of the last step and its result
    olderThan,         \* pairs <<a, b>> of resident keys: a was last touched before b
    insertLog,         \* the distinct keys inserted since the cache was last empty,
                       \* while nothing but inserts of new keys happened
    rlNow,             \* Math.floor(Date.now() / 1000) of the worker
    kvConfigured,      \* env.RATE_LIMIT is bound
    tracked,           \* the observations this run records: "reached", "seen", "scan"
    rlCallers,         \* the client IPs that send requests in this run
    kv,                \* the counts stored in the KV namespace, 0 = no entry
    puts,              \* the deferred KV puts handed to ctx.waitUntil
    inMemoryRateLimit, \* the worker's Map, as its entries in insertion order
    lastRateLimitCleanup,
    rlCalls,           \* checkRateLimit calls suspended at the KV read
    rlOp,              \* the decision returned by the last step, if any
    allowedCount,      \* allowed decisions so far, per caller and window
    reachedLimit,      \* the (caller, window) pairs whose stored count reached limit
    lastSeen,          \* the stored count the latest call read, per store, caller and window
    capacityScan,      \* whether the latest step scanned the map for capacity, and the time of the latest such scan
    rtNow,             \* Date.now() of the route's server instance
    rateLimit,         \* the route's Map of client key to { count, resetAt }
    rtLastCleanup,     \* the route's lastRateLimitCleanup
    rtOp,              \* the latest step of the route's limiter and what it returned
    body,              \* a request body: its query and its variables
    origKey,           \* what generateKey gave for the body as it was first sent
    keyOut,            \* what the latest call of generateKey gave
    queryType,         \* what the latest call of detectQueryType returned
    edits,             \* the parts of the body the client has rewritten since it first sent it
    wkResp,            \* the response the worker's fetch handler returned last, with its request
    wkPending,         \* the upstream calls of the worker that have not settled
    postParsing,       \* the POST handlers of the route that await request.json()
    postUpstream,      \* the POST handlers of the route that await the upstream API
    postResp,          \* the response the route's POST handler returned last
    servedStale        \* the cache keys whose latest unauthenticated request got a stale hit

swrVars == <<now, cache, inflightRequests, lastFetchTime, requests, lastOp, usedKeys, options,
             subscribers, notified, registered>>

scVars == <<scNow, scCache, accessOrder, scOp, olderThan, insertLog>>

rlVars == <<rlNow, kvConfigured, tracked, rlCallers, kv, puts, inMemoryRateLimit, lastRateLimitCleanup,
            rlCalls, rlOp, allowedCount, reachedLimit, lastSeen, capacityScan>>

rtVars == <<rtNow, rateLimit, rtLastCleanup, rtOp>>

keyVars == <<body, origKey, keyOut, queryType, edits>>

wkVars == <<wkResp, wkPending>>

postVars == <<postParsing, postUpstream, postResp, servedStale>>

vars == <<swrVars, scVars, rlVars, rtVars, keyVars, wkVars, postVars>>

\* what a step of one component leaves alone
OutsideSWR == <<scVars, rlVars, rtVars, keyVars, wkVars, postVars>>
OutsideSC == <<swrVars, rlVars, rtVars, keyVars, wkVars, postVars>>
OutsideRL == <<swrVars, scVars, rtVars, keyVars, wkVars, postVars>>
OutsideRoute == <<swrVars, scVars, rlVars, keyVars, wkVars, postVars>>
OutsideKey == <<swrVars, scVars, rlVars, rtVars, wkVars, postVars>>
OutsideWorker == <<swrVars, scVars, rtVars, keyVars, postVars>>
OutsidePost == <<swrVars, rlVars, keyVars, wkVars>>

NoEntry ==
    [present |-> FALSE, data |-> Undefined, error |-> NoError,
     timestamp |-> 0, isValidating |-> FALSE]

NoRequest ==
    [key |-> "none", status |-> "unused", value |-> Undefined, error |-> NoError,
     joiners |-> 0]

Op(op, k, kind, value, req, stale) ==
    [op |-> op, key |-> k, kind |-> kind, value |-> value, req |-> req, isStale |-> stale]

NoOp == Op("none", "none", "none", Undefined, NoReq, FALSE)

(***************************************************************************)
(* SWRCache.subscribe and notifySubscribers                                *)
(***************************************************************************)
\* the callbacks notifySubscribers calls when run for each key of K
Called(subs, K) == {<<k, l>> \in K \X Listeners : l \in subs[k]}

\* the step calls notifySubscribers for the keys of K and nothing else
\* touches the subscriptions
Notify(K) ==
    /\ notified' = Called(subscribers, K)
    /\ UNCHANGED <<subscribers, registered>>

\* the keys that have an entry
Cached(c) == {k \in Keys : c[k].present}

(***************************************************************************)
(* SWRCache.get: the returned SWRState and the cache after the call        *)
(***************************************************************************)
GetExpired(entry, t, cacheTime) == t - entry.timestamp > cacheTime

\* mutant: stale from the boundary on
GetStale_Mut(entry, t, staleTime) == t - entry.timestamp >= staleTime

GetStale(entry, t, staleTime) == t - entry.timestamp > staleTime

SWRGetState(c, k, t, staleTime, cacheTime) ==
    IF ~c[k].present \/ GetExpired(c[k], t, cacheTime)
    THEN [data |-> Undefined, error |-> NoError, isValidating |-> FALSE, isStale |-> TRUE]
    ELSE [data |-> c[k].data, error |-> c[k].error,
          isValidating |-> c[k].isValidating,
          isStale |-> GetStale(c[k], t, staleTime)]

SWRGetCache(c, k, t, cacheTime) ==
    IF c[k].present /\ GetExpired(c[k], t, cacheTime)
    THEN [c EXCEPT ![k] = NoEntry]
    ELSE c

(***************************************************************************)
(* SWRCache.set and SWRCache.setValidating                                 *)
(***************************************************************************)
SWRSet(c, k, data, error, t) ==
    [c EXCEPT ![k] = [present |-> TRUE, data |-> data, error |-> error,
                      timestamp |-> t,
                      isValidating |-> IF c[k].present THEN c[k].isValidating ELSE FALSE]]

SetValidating(c, k, b) ==
    IF c[k].present THEN [c EXCEPT ![k].isValidating = b] ELSE c

(***************************************************************************)
(* SWRCache.fetch, the synchronous part                                    *)
(***************************************************************************)
FreeReqs == {r \in 1..MaxRequests : requests[r].status = "unused"}

\* the dedupe check of fetch: a request started less than dedupingInterval ago
DedupeJoin(k) ==
    /\ now - lastFetchTime[k] < DedupingInterval
    /\ inflightRequests[k] # NoReq

\* the fresh-hit check of fetch, on the state get() returned
FreshHit(state) == Truthy(state.data) /\ ~state.isStale

\* mutant: the in-flight request is never reused
ReuseInflight_Mut(k) == FALSE

\* the reuse of the in-flight request
ReuseInflight(k) == inflightRequests[k] # NoReq

\* return the promise of request r to one more caller
JoinRequest(k, r, kind) ==
    /\ requests' = [requests EXCEPT ![r].joiners = IF @ < 2 THEN @ + 1 ELSE @]
    /\ lastOp' = Op("fetch", k, kind, Undefined, r, FALSE)

Fetch(k) ==
    LET state == SWRGetState(cache, k, now, options.staleTime, options.cacheTime)
        afterGet == SWRGetCache(cache, k, now, options.cacheTime)
    IN
    IF DedupeJoin(k)
    THEN /\ JoinRequest(k, inflightRequests[k], "dedupe")
         /\ Notify({})
         /\ UNCHANGED <<now, cache, inflightRequests, lastFetchTime, usedKeys, options>>
    ELSE IF FreshHit(state)
    THEN /\ lastOp' = Op("fetch", k, "hit", state.data, NoReq, FALSE)
         /\ cache' = afterGet
         /\ Notify({})
         /\ UNCHANGED <<now, inflightRequests, lastFetchTime, requests, usedKeys, options>>
    ELSE IF ReuseInflight(k)
    THEN /\ JoinRequest(k, inflightRequests[k], "join")
         /\ cache' = afterGet
         /\ Notify({})
         /\ UNCHANGED <<now, inflightRequests, lastFetchTime, usedKeys, options>>
    ELSE /\ FreeReqs # {}
         /\ LET r == CHOOSE x \in FreeReqs : \A y \in FreeReqs : x <= y
            IN /\ cache' = SetValidating(afterGet, k, TRUE)
               /\ lastFetchTime' = [lastFetchTime EXCEPT ![k] = now]
               /\ requests' = [requests EXCEPT ![r] =
                                 [key |-> k, status |-> "pending", value |-> Undefined,
                                  error |-> NoError, joiners |-> 0]]
               /\ inflightRequests' = [inflightRequests EXCEPT ![k] = r]
               /\ lastOp' = Op("fetch", k, "start", Undefined, r, FALSE)
         /\ Notify({k} \cap Cached(afterGet))
         /\ UNCHANGED <<now, usedKeys, options>>

(***************************************************************************)
(* SWRCache.fetch, the callbacks of the promise chain                      *)
(***************************************************************************)
\* .then((data) => { this.set(key, data, null); return data; })
FetchThen(r, v) ==
    /\ requests[r].status = "pending"
    /\ cache' = SWRSet(cache, requests[r].key, v, NoError, now)
    /\ requests' = [requests EXCEPT ![r].status = "resolved", ![r].value = v]
    /\ lastOp' = Op("then", requests[r].key, "none", v, r, FALSE)
    /\ Notify({requests[r].key})
    /\ UNCHANGED <<now, inflightRequests, lastFetchTime, usedKeys, options>>

\* mutant: the catch callback stamps the entry it keeps
CatchCache_Stamp(c, k, e, t) ==
    IF c[k].present
    THEN [c EXCEPT ![k].error = e, ![k].isValidating = FALSE, ![k].timestamp = t]
    ELSE SWRSet(c, k, Undefined, e, t)

\* mutant: the catch callback overwrites the entry
CatchCache_Mut(c, k, e, t) == SWRSet(c, k, Undefined, e, t)

\* the cache after the .catch callback
CatchCache(c, k, e, t) ==
    IF c[k].present
    THEN [c EXCEPT ![k].error = e, ![k].isValidating = FALSE]
    ELSE SWRSet(c, k, Undefined, e, t)

\* what the .catch callback settles the chain with: it rethrows the error
CatchOutcome(req, e) == [req EXCEPT !.status = "rejected", !.error = e]

FetchCatch(r, e) ==
    /\ requests[r].status = "pending"
    /\ cache' = CatchCache(cache, requests[r].key, e, now)
    /\ requests' = [requests EXCEPT ![r] = CatchOutcome(@, e)]
    /\ lastOp' = Op("catch", requests[r].key, "none", Undefined, r, FALSE)
    /\ Notify({requests[r].key})
    /\ UNCHANGED <<now, inflightRequests, lastFetchTime, usedKeys, options>>

\* mutant: the finally callback leaves the registry entry
FinallyInflight_Mut(inflight, k) == inflight

\* the registry after the .finally callback
FinallyInflight(inflight, k) == [inflight EXCEPT ![k] = NoReq]

\* .finally(() => { this.inflightRequests.delete(key); this.setValidating(key, false); })
\* the chain is finished: every caller that holds it has its outcome, the slot is free
FetchFinally(r) ==
    /\ requests[r].status \in {"resolved", "rejected"}
    /\ inflightRequests' = FinallyInflight(inflightRequests, requests[r].key)
    /\ cache' = SetValidating(cache, requests[r].key, FALSE)
    /\ requests' = [requests EXCEPT ![r] = NoRequest]
    /\ lastOp' = Op("finally", requests[r].key, requests[r].status,
                    requests[r].value, r, FALSE)
    /\ Notify({requests[r].key} \cap Cached(cache))
    /\ UNCHANGED <<now, lastFetchTime, usedKeys, options>>

(***************************************************************************)
(* The other operations of SWRCache                                        *)
(***************************************************************************)
Get(k) ==
    LET state == SWRGetState(cache, k, now, options.staleTime, options.cacheTime)
    IN /\ cache' = SWRGetCache(cache, k, now, options.cacheTime)
       /\ lastOp' = Op("get", k, "none", state.data, NoReq, state.isStale)
       /\ Notify({})
       /\ UNCHANGED <<now, inflightRequests, lastFetchTime, requests, usedKeys, options>>

Invalidate(k) ==
    /\ cache' = [cache EXCEPT ![k] = NoEntry]
    /\ lastOp' = Op("invalidate", k, "none", Undefined, NoReq, FALSE)
    /\ Notify({k})
    /\ UNCHANGED <<now, inflightRequests, lastFetchTime, requests, usedKeys, options>>

Clear ==
    /\ cache' = [k \in Keys |-> NoEntry]
    /\ lastOp' = Op("clear", "none", "none", Undefined, NoReq, FALSE)
    /\ Notify(Cached(cache))
    /\ UNCHANGED <<now, inflightRequests, lastFetchTime, requests, usedKeys, options>>

\* mutant: every entry goes, whatever the pattern
PatternKeys_Mut(c, p) == Cached(c)

\* the keys invalidatePattern deletes and notifies
PatternKeys(c, p) == {k \in Cached(c) : Matches(p, k)}

InvalidatePattern(p) ==
    /\ cache' = [k \in Keys |-> IF k \in PatternKeys(cache, p) THEN NoEntry ELSE cache[k]]
    /\ lastOp' = Op("invalidatePattern", p,
                    IF PatternKeys(cache, p) # {} THEN "removed" ELSE "none",
                    Undefined, NoReq, FALSE)
    /\ Notify(PatternKeys(cache, p))
    /\ UNCHANGED <<now, inflightRequests, lastFetchTime, requests, usedKeys, options>>

\* a direct call of set(key, data)
SetEntry(k, v) ==
    /\ cache' = SWRSet(cache, k, v, NoError, now)
    /\ lastOp' = Op("set", k, "none", v, NoReq, FALSE)
    /\ Notify({k})
    /\ UNCHANGED <<now, inflightRequests, lastFetchTime, requests, usedKeys, options>>

\* subscribe(key, callback): the callback joins the Set of the key
Subscribe(k, l) ==
    /\ subscribers' = [subscribers EXCEPT ![k] = @ \cup {l}]
    /\ registered' = [registered EXCEPT ![<<k, l>>] = "subscribed"]
    /\ notified' = {}
    /\ lastOp' = Op("subscribe", k, l, Undefined, NoReq, FALSE)
    /\ UNCHANGED <<now, cache, inflightRequests, lastFetchTime, requests, usedKeys, options>>

\* mutant: the whole Set of the key is dropped
Unsubscribed_Mut(subs, k, l) == [subs EXCEPT ![k] = {}]

\* subs.delete(callback), and the Set of the key is dropped once it is empty
Unsubscribed(subs, k, l) == [subs EXCEPT ![k] = @ \ {l}]

\* a call of the function subscribe(key, callback) returned
Unsubscribe(k, l) ==
    /\ registered[<<k, l>>] # "never"
    /\ subscribers' = Unsubscribed(subscribers, k, l)
    /\ registered' = [registered EXCEPT ![<<k, l>>] = "unsubscribed"]
    /\ notified' = {}
    /\ lastOp' = Op("unsubscribe", k, l, Undefined, NoReq, FALSE)
    /\ UNCHANGED <<now, cache, inflightRequests, lastFetchTime, requests, usedKeys, options>>

Tick ==
    /\ now < MaxTime
    /\ now' = now + 1
    /\ lastOp' = NoOp
    /\ Notify({})
    /\ UNCHANGED <<cache, inflightRequests, lastFetchTime, requests, usedKeys, options>>

(***************************************************************************)
(* ServerCache: DEFAULT_CONFIG and CACHE_TTLS, scaled (1 min < 5 min < 10  *)
(* min; maxEntries 1000 scaled to 2)                                       *)
(***************************************************************************)
SCStaleWindow == 1
SCDefaultTTL == 2
SCLongTTL == 3
SCMaxEntries == 2
SCMaxTime == 5

SCKeys == {"q1", "q2", "q3", "q4"}
SCData == {"x", "y"}
NoKey == "none"
NoData == "null"
\* set(key, data) without a ttl argument
NoTTL == -1
SCTTLs == {NoTTL, SCLongTTL}

SCNoEntry == [present |-> FALSE, data |-> NoData, expires |-> 0, staleAt |-> 0]

SCResult(op, k, hit, data, stale) ==
    [op |-> op, key |-> k, hit |-> hit, data |-> data, isStale |-> stale,
     purged |-> FALSE, evicted |-> FALSE]

\* the null a get returns after it removed an entry past its stale window
SCPurged(k) == [SCResult("get", k, FALSE, NoData, FALSE) EXCEPT !.purged = TRUE]

SCNoOp == SCResult("none", NoKey, FALSE, NoData, FALSE)

Resident(c) == {k \in SCKeys : c[k].present}

RECURSIVE IndexOf(_, _, _)
\* accessOrder.indexOf(key), from position i; 0 when absent
IndexOf(order, k, i) ==
    IF i > Len(order) THEN 0
    ELSE IF order[i] = k THEN i
    ELSE IndexOf(order, k, i + 1)

\* removeFromAccessOrder: splice out the first occurrence
RemoveFromAccessOrder_Mut(order, k) == order
RemoveFromAccessOrder(order, k) ==
    LET i == IndexOf(order, k, 1)
    IN IF i = 0 THEN order
       ELSE SubSeq(order, 1, i - 1) \o SubSeq(order, i + 1, Len(order))

UpdateAccessOrder(order, k) == Append(RemoveFromAccessOrder(order, k), k)

\* mutant: the oldest key is taken from the wrong end of the list
OldestKey_Mut(order) == order[Len(order)]

\* the key evictOldest removes: accessOrder.shift()
OldestKey(order) == Head(order)

\* mutant: evict only when over capacity
AtCapacity_Mut(c, k) == Cardinality(Resident(c)) > SCMaxEntries /\ ~c[k].present

\* the capacity test of set
AtCapacity(c, k) == Cardinality(Resident(c)) >= SCMaxEntries /\ ~c[k].present

EvictOldestCache(c, order) ==
    IF Len(order) > 0 THEN [c EXCEPT ![OldestKey(order)] = SCNoEntry] ELSE c

EvictOldestOrder(order) ==
    IF Len(order) > 0 THEN RemoveFromAccessOrder(order, OldestKey(order)) ELSE order

\* ghost: k becomes the most recently touched of the resident keys res
Touch(rel, res, k) ==
    {p \in rel : p[1] # k /\ p[2] # k /\ p[1] \in res /\ p[2] \in res}
        \cup {<<j, k>> : j \in res \ {k}}

Forget(rel, res) == {p \in rel : p[1] \in res /\ p[2] \in res}

\* mutant: the entry is dropped one instant early
SCExpired_Mut(entry, t) == t >= entry.expires + SCStaleWindow

SCExpired(entry, t) == t > entry.expires + SCStaleWindow

SCIsStale(entry, t) == t > entry.staleAt

SCGet(k) ==
    /\ IF ~scCache[k].present
       THEN /\ scOp' = SCResult("get", k, FALSE, NoData, FALSE)
            /\ UNCHANGED <<scCache, accessOrder, olderThan>>
       ELSE IF SCExpired(scCache[k], scNow)
       THEN /\ scCache' = [scCache EXCEPT ![k] = SCNoEntry]
            /\ accessOrder' = RemoveFromAccessOrder(accessOrder, k)
            /\ olderThan' = Forget(olderThan, Resident(scCache'))
            /\ scOp' = SCPurged(k)
       ELSE /\ accessOrder' = UpdateAccessOrder(accessOrder, k)
            /\ olderThan' = Touch(olderThan, Resident(scCache), k)
            /\ scOp' = [SCResult("get", k, TRUE, scCache[k].data,
                                 SCIsStale(scCache[k], scNow))
                          EXCEPT !.evicted = scOp.op = "set" /\ scOp.key = k /\ scOp.evicted]
            /\ UNCHANGED scCache
    /\ insertLog' = <<>>
    /\ UNCHANGED scNow

EffectiveTTL(ttl) == IF ttl = NoTTL THEN SCDefaultTTL ELSE ttl

\* the entry set stores
NewEntry_Mut(data, ttl, t) == SCNoEntry
NewEntry(data, ttl, t) ==
    [present |-> TRUE, data |-> data, expires |-> t + EffectiveTTL(ttl),
     staleAt |-> t + EffectiveTTL(ttl) - SCStaleWindow]

SCSet(k, data, ttl) ==
    LET evict == AtCapacity(scCache, k)
        c1 == IF evict THEN EvictOldestCache(scCache, accessOrder) ELSE scCache
        o1 == IF evict THEN EvictOldestOrder(accessOrder) ELSE accessOrder
    IN /\ scCache' = [c1 EXCEPT ![k] = NewEntry(data, ttl, scNow)]
       /\ accessOrder' = UpdateAccessOrder(o1, k)
       /\ olderThan' = Touch(olderThan, Resident(scCache'), k)
       /\ scOp' = [SCResult("set", k, FALSE, data, FALSE) EXCEPT !.evicted = evict]
       /\ insertLog' = IF ~scCache[k].present
                          /\ (Resident(scCache) = {} \/ insertLog # <<>>)
                          /\ IndexOf(insertLog, k, 1) = 0
                       THEN Append(insertLog, k)
                       ELSE <<>>
       /\ UNCHANGED scNow

SCDelete(k) ==
    /\ accessOrder' = RemoveFromAccessOrder(accessOrder, k)
    /\ scCache' = [scCache EXCEPT ![k] = SCNoEntry]
    /\ olderThan' = Forget(olderThan, Resident(scCache'))
    /\ scOp' = SCResult("delete", k, scCache[k].present, NoData, FALSE)
    /\ insertLog' = <<>>
    /\ UNCHANGED scNow

SCClear ==
    /\ scCache' = [k \in SCKeys |-> SCNoEntry]
    /\ accessOrder' = <<>>
    /\ olderThan' = {}
    /\ scOp' = SCResult("clear", NoKey, FALSE, NoData, FALSE)
    /\ insertLog' = <<>>
    /\ UNCHANGED scNow

SCTick ==
    /\ scNow < SCMaxTime
    /\ scNow' = scNow + 1
    /\ scOp' = SCNoOp
    /\ UNCHANGED <<scCache, accessOrder, olderThan, insertLog>>

\* the ServerCache right after construction
SCIdle ==
    /\ scNow = 0
    /\ scCache = [k \in SCKeys |-> SCNoEntry]
    /\ accessOrder = <<>>
    /\ scOp = SCNoOp
    /\ olderThan = {}
    /\ insertLog = <<>>

(***************************************************************************)
(* Worker checkRateLimit: RATE_LIMIT_REQUESTS 100 scaled to 2, window 60 s *)
(* scaled to 2 s, the 24 h sweep interval to 2 s, the 10000 entry ceiling  *)
(* of the in-memory map to 2.  The clock starts past the first sweep       *)
(* interval, as Date.now() does.                                           *)
(***************************************************************************)
Limit == 2
WindowSeconds == 2
CleanupInterval == 2
MaxInMemoryEntries == 2
RLStartTime == 2 * WindowSeconds
RLMaxTime == 6
MaxRLCalls == 2
MaxPuts == 1

Callers == {"A", "B", "C"}
Windows == {t \in 0..RLMaxTime + 1 : t % WindowSeconds = 0}
RLKeys == Callers \X Windows

\* where a counter is kept: the KV namespace or the in-memory map
Stores == {"kv", "memory"}

WindowStart(t) == t - (t % WindowSeconds)

ResetAt(t) == WindowStart(t) + WindowSeconds

\* mutant: the key does not name the window
RLKey_Mut(c, t) == <<c, WindowStart(RLStartTime)>>

\* `rate:${clientIP}:${windowStart}`
RLKey(c, t) == <<c, WindowStart(t)>>

\* one more / one less copy of x in the bag b
BagAdd(b, x) == b (+) SetToBag({x})
BagRemove(b, x) == b (-) SetToBag({x})

Decision(c, t, allowed, remaining, path) ==
    [caller |-> c, at |-> t, allowed |-> allowed, remaining |-> remaining,
     resetAt |-> ResetAt(t), retryAfter |-> IF allowed THEN 0 ELSE ResetAt(t) - t,
     path |-> path]

NoDecision ==
    [caller |-> "none", at |-> 0, allowed |-> FALSE, remaining |-> 0,
     resetAt |-> 0, retryAfter |-> 0, path |-> "none"]

\* the entries of the map that a scan for expired counters keeps
DropExpired(m, t) == SelectSeq(m, LAMBDA e : ~(e.resetAt <= t))

\* cleanupInMemoryRateLimit: the map and lastRateLimitCleanup after the call
SweepDue(t, last) == ~(t - last < CleanupInterval)

CleanupMap(m, t, last) == IF SweepDue(t, last) THEN DropExpired(m, t) ELSE m

CleanupLast(t, last) == IF SweepDue(t, last) THEN t ELSE last

RECURSIVE EvictToCapacity(_), EvictToCapacity_Mut(_)
\* mutant: evict only when over the ceiling
EvictToCapacity_Mut(m) ==
    IF Len(m) > MaxInMemoryEntries /\ Len(m) > 0
    THEN EvictToCapacity_Mut(Tail(m))
    ELSE m

\* while (size >= MAX) delete the first key of the map
EvictToCapacity(m) ==
    IF Len(m) >= MaxInMemoryEntries /\ Len(m) > 0
    THEN EvictToCapacity(Tail(m))
    ELSE m

\* ensureInMemoryLimitCapacity goes past its early return and scans the map
CapacityScanDue(m) == ~(Len(m) < MaxInMemoryEntries)

\* ghost: the step ran no capacity scan
NoScan(scan) == [scan EXCEPT !.ran = FALSE]

\* ensureInMemoryLimitCapacity
EnsureCapacity(m, t) ==
    IF Len(m) < MaxInMemoryEntries THEN m
    ELSE EvictToCapacity(DropExpired(m, t))

RECURSIVE MapIndex(_, _, _)
MapIndex(m, key, i) ==
    IF i > Len(m) THEN 0
    ELSE IF m[i].key = key THEN i
    ELSE MapIndex(m, key, i + 1)

\* Map.set: an existing key keeps its place, a new key goes last
MapSet(m, key, count, resetAt) ==
    LET i == MapIndex(m, key, 1)
        e == [key |-> key, count |-> count, resetAt |-> resetAt]
    IN IF i = 0 THEN Append(m, e) ELSE [m EXCEPT ![i] = e]

MapDelete(m, key) == SelectSeq(m, LAMBDA e : e.key # key)

MapCount(m, key) ==
    LET i == MapIndex(m, key, 1) IN IF i = 0 THEN 0 ELSE m[i].count

\* ghost: the stored count of key has just become count
NoteCount(reached, key, count) ==
    IF "reached" \in tracked /\ count = Limit THEN reached \cup {key} ELSE reached

\* ghost: a call has just read the count current under key in the store
NoteSeen(seen, store, key, current) ==
    IF "seen" \in tracked THEN [seen EXCEPT ![store][key] = current] ELSE seen

CountAllowed(ac, key) == [ac EXCEPT ![key] = IF @ <= Limit THEN @ + 1 ELSE @]

\* the in-memory fallback of checkRateLimit, for a call that started at time t
\* on the map m (already swept by the call)
MemoryPath(c, t, m) ==
    LET key == RLKey(c, t)
        i == MapIndex(m, key, 1)
        current == MapCount(m, key)
        m1 == IF i # 0 /\ m[i].resetAt # ResetAt(t) THEN MapDelete(m, key) ELSE m
    IN /\ lastSeen' = NoteSeen(lastSeen, "memory", key, current)
       /\ IF current >= Limit
          THEN /\ inMemoryRateLimit' = m1
               /\ rlOp' = Decision(c, t, FALSE, 0, "memory")
               /\ capacityScan' = NoScan(capacityScan)
               /\ UNCHANGED <<allowedCount, reachedLimit>>
          ELSE /\ inMemoryRateLimit' = MapSet(EnsureCapacity(m1, t), key, current + 1, ResetAt(t))
               /\ rlOp' = Decision(c, t, TRUE, Limit - 1, "memory")
               /\ allowedCount' = CountAllowed(allowedCount, key)
               /\ reachedLimit' = NoteCount(reachedLimit, key, current + 1)
               /\ capacityScan' = IF "scan" \in tracked /\ CapacityScanDue(m1)
                                  THEN [ran |-> TRUE, at |-> rlNow]
                                  ELSE NoScan(capacityScan)


\* checkRateLimit up to the KV read; without a KV binding, the whole call
RLStart(c) ==
    /\ lastRateLimitCleanup' = CleanupLast(rlNow, lastRateLimitCleanup)
    /\ IF kvConfigured
       THEN /\ BagCardinality(rlCalls) < MaxRLCalls
            /\ rlCalls' = BagAdd(rlCalls, [caller |-> c, at |-> rlNow])
            /\ inMemoryRateLimit' = CleanupMap(inMemoryRateLimit, rlNow, lastRateLimitCleanup)
            /\ rlOp' = NoDecision
            /\ capacityScan' = NoScan(capacityScan)
            /\ UNCHANGED <<allowedCount, reachedLimit, lastSeen>>
       ELSE /\ MemoryPath(c, rlNow, CleanupMap(inMemoryRateLimit, rlNow, lastRateLimitCleanup))
            /\ UNCHANGED rlCalls
    /\ UNCHANGED <<rlNow, kvConfigured, tracked, rlCallers, kv, puts>>

\* the KV read of call i returns: the decision on the stored count, the put deferred
RLKvRead(call) ==
    /\ BagIn(call, rlCalls)
    /\ LET c == call.caller
           t == call.at
           key == RLKey(c, t)
           current == kv[key]
       IN /\ lastSeen' = NoteSeen(lastSeen, "kv", key, current)
          /\ IF current >= Limit
             THEN /\ rlOp' = Decision(c, t, FALSE, 0, "kv")
                  /\ UNCHANGED <<puts, allowedCount>>
             ELSE /\ BagCardinality(puts) < MaxPuts
                  /\ puts' = BagAdd(puts, [key |-> key, count |-> current + 1])
                  /\ rlOp' = Decision(c, t, TRUE, Limit - current - 1, "kv")
                  /\ allowedCount' = CountAllowed(allowedCount, key)
    /\ rlCalls' = BagRemove(rlCalls, call)
    /\ capacityScan' = NoScan(capacityScan)
    /\ UNCHANGED <<rlNow, kvConfigured, tracked, rlCallers, kv, inMemoryRateLimit, lastRateLimitCleanup,
                   reachedLimit>>

\* mutant: no catch block, the failure of the read ends the call without a decision
RLKvReadFails_Mut(call) ==
    /\ BagIn(call, rlCalls)
    /\ rlCalls' = BagRemove(rlCalls, call)
    /\ rlOp' = NoDecision
    /\ capacityScan' = NoScan(capacityScan)
    /\ UNCHANGED <<rlNow, kvConfigured, tracked, rlCallers, kv, puts, lastRateLimitCleanup,
                   inMemoryRateLimit, allowedCount, reachedLimit, lastSeen>>

\* the KV read of call i throws: the catch block falls through to the in-memory path
RLKvReadFails(call) ==
    /\ BagIn(call, rlCalls)
    /\ MemoryPath(call.caller, call.at, inMemoryRateLimit)
    /\ rlCalls' = BagRemove(rlCalls, call)
    /\ UNCHANGED <<rlNow, kvConfigured, tracked, rlCallers, kv, puts, lastRateLimitCleanup>>

\* the KV read of the call returned a count below the limit and put throws
\* before it returns a promise: the same catch block, the same fall through
RLKvPutThrows(call) ==
    /\ BagIn(call, rlCalls)
    /\ kv[RLKey(call.caller, call.at)] < Limit
    /\ MemoryPath(call.caller, call.at, inMemoryRateLimit)
    /\ rlCalls' = BagRemove(rlCalls, call)
    /\ UNCHANGED <<rlNow, kvConfigured, tracked, rlCallers, kv, puts, lastRateLimitCleanup>>

\* a deferred put reaches the store
RLPutLands(put) ==
    /\ BagIn(put, puts)
    /\ kv' = [kv EXCEPT ![put.key] = put.count]
    /\ reachedLimit' = NoteCount(reachedLimit, put.key, put.count)
    /\ puts' = BagRemove(puts, put)
    /\ rlOp' = NoDecision
    /\ capacityScan' = NoScan(capacityScan)
    /\ UNCHANGED <<rlNow, kvConfigured, tracked, rlCallers, inMemoryRateLimit, lastRateLimitCleanup, rlCalls,
                   allowedCount, lastSeen>>

\* a deferred put fails; waitUntil swallows the rejection
RLPutFails(put) ==
    /\ BagIn(put, puts)
    /\ puts' = BagRemove(puts, put)
    /\ rlOp' = NoDecision
    /\ capacityScan' = NoScan(capacityScan)
    /\ UNCHANGED <<rlNow, kvConfigured, tracked, rlCallers, kv, inMemoryRateLimit, lastRateLimitCleanup, rlCalls,
                   allowedCount, reachedLimit, lastSeen>>

\* the keys no call can read or write any more at time t: their window has
\* ended and no suspended call and no deferred put carries them
DeadKeys(t) ==
    {key \in RLKeys :
        /\ key[2] + WindowSeconds <= t
        /\ \A call \in BagToSet(rlCalls) : RLKey(call.caller, call.at) # key
        /\ \A put \in BagToSet(puts) : put.key # key}

\* time passes; the KV entries of dead keys expire (expirationTtl), and their
\* tally of allowed decisions, which can no longer change, is dropped
RLTick ==
    /\ rlNow < RLMaxTime
    /\ rlNow' = rlNow + 1
    /\ rlOp' = NoDecision
    /\ capacityScan' = NoScan(capacityScan)
    /\ kv' = [key \in RLKeys |-> IF key \in DeadKeys(rlNow + 1) THEN 0 ELSE kv[key]]
    /\ allowedCount' = [key \in RLKeys |->
                           IF key \in DeadKeys(rlNow + 1) THEN 0 ELSE allowedCount[key]]
    /\ reachedLimit' = {key \in reachedLimit : rlNow + 1 < key[2] + 2 * WindowSeconds}
    /\ lastSeen' = [p \in Stores |-> [key \in RLKeys |->
                       IF key \in DeadKeys(rlNow + 1) THEN 0 ELSE lastSeen[p][key]]]
    /\ UNCHANGED <<kvConfigured, tracked, rlCallers, puts, inMemoryRateLimit, lastRateLimitCleanup,
                   rlCalls>>

\* no worker traffic
NoWorker == kvConfigured = FALSE /\ rlCallers = {} /\ tracked = {}

\* the worker isolate right after start
RLIdle ==
    /\ rlNow = RLStartTime
    /\ kv = [key \in RLKeys |-> 0]
    /\ puts = EmptyBag
    /\ inMemoryRateLimit = <<>>
    /\ lastRateLimitCleanup = 0
    /\ rlCalls = EmptyBag
    /\ rlOp = NoDecision
    /\ allowedCount = [key \in RLKeys |-> 0]
    /\ reachedLimit = {}
    /\ lastSeen = [p \in Stores |-> [key \in RLKeys |-> 0]]
    /\ capacityScan = [ran |-> FALSE, at |-> 0]

(***************************************************************************)
(* The route's checkRateLimit (+server.ts): RATE_LIMIT_MAX 60 scaled to 2, *)
(* the 60000 ms window to 2 ticks, the 24 h sweep interval to 3 ticks, one *)
(* second to 2 ticks.  The clock starts past the first sweep interval.     *)
(***************************************************************************)
RouteLimitMax == 2
RouteWindowMs == 2
RouteCleanupInterval == 3
MsPerSecond == 2
RouteMaxTime == 7

RouteClients == {"A", "B"}

NoCounter == [present |-> FALSE, count |-> 0, resetAt |-> 0]

\* Math.ceil(a / b) for a >= 0
CeilDiv(a, b) == (a + b - 1) \div b

RouteDecision(c, t, allowed, remaining, resetAt, swept) ==
    [op |-> "check", client |-> c, at |-> t, allowed |-> allowed, remaining |-> remaining,
     resetAt |-> resetAt,
     retryAfter |-> IF allowed THEN 0
                    ELSE IF CeilDiv(resetAt - t, MsPerSecond) > 1
                         THEN CeilDiv(resetAt - t, MsPerSecond) ELSE 1,
     swept |-> swept]

RouteNoOp ==
    [op |-> "none", client |-> "none", at |-> 0, allowed |-> FALSE, remaining |-> 0,
     resetAt |-> 0, retryAfter |-> 0, swept |-> FALSE]

\* cleanupRateLimit goes past its early return
RouteSweepDue(t, last) == ~(t - last < RouteCleanupInterval)

\* the map cleanupRateLimit leaves
RouteCleanup(m, t, last) ==
    IF RouteSweepDue(t, last)
    THEN [c \in RouteClients |-> IF m[c].present /\ m[c].resetAt <= t THEN NoCounter ELSE m[c]]
    ELSE m

\* the first branch of checkRateLimit is taken: no entry, or its window is over
RouteNewWindow(entry, t) == ~entry.present \/ t > entry.resetAt

\* checkRateLimit after the call of cleanupRateLimit: the map it leaves
RouteCount(m, c, t) ==
    IF RouteNewWindow(m[c], t)
    THEN [m EXCEPT ![c] = [present |-> TRUE, count |-> 1, resetAt |-> t + RouteWindowMs]]
    ELSE IF m[c].count >= RouteLimitMax THEN m
    ELSE [m EXCEPT ![c].count = @ + 1]

\* checkRateLimit after the call of cleanupRateLimit: the result it returns
RouteDecide(m, c, t, swept) ==
    IF RouteNewWindow(m[c], t)
    THEN RouteDecision(c, t, TRUE, RouteLimitMax - 1, t + RouteWindowMs, swept)
    ELSE IF m[c].count >= RouteLimitMax
    THEN RouteDecision(c, t, FALSE, 0, m[c].resetAt, swept)
    ELSE RouteDecision(c, t, TRUE, RouteLimitMax - (m[c].count + 1), m[c].resetAt, swept)

\* one call of the route's checkRateLimit for the client key c
RouteCheckRateLimit(c) ==
    LET swept == RouteSweepDue(rtNow, rtLastCleanup)
        m == RouteCleanup(rateLimit, rtNow, rtLastCleanup)
    IN /\ rtLastCleanup' = IF swept THEN rtNow ELSE rtLastCleanup
       /\ rateLimit' = RouteCount(m, c, rtNow)
       /\ rtOp' = RouteDecide(m, c, rtNow, swept)
       /\ UNCHANGED rtNow

RouteTick ==
    /\ rtNow < RouteMaxTime
    /\ rtNow' = rtNow + 1
    /\ rtOp' = RouteNoOp
    /\ UNCHANGED <<rateLimit, rtLastCleanup>>

\* the server instance right after start
RouteIdle ==
    /\ rtNow = RouteCleanupInterval
    /\ rateLimit = [c \in RouteClients |-> NoCounter]
    /\ rtLastCleanup = 0
    /\ rtOp = RouteNoOp

\* ---------------------------------------------------------------------
\* ServerCache.generateKey and ServerCache.detectQueryType (part_004)
\* ---------------------------------------------------------------------

MaxQueryLen == 3

\* the characters the pattern \s matches
Whitespace == {" ", "\n"}

\* the words a query is written with
Words == {"accountLeaderboard", "accountProfile", "models", "v3UserProfile",
          "roundModelPerformances", "userSearch", "id"}

QueryChars == Whitespace \cup Words

KeyChars == Whitespace \cup {"id"}

Texts(chars) == UNION {[1..n -> chars] : n \in 0..MaxQueryLen}

Str(text) == [type |-> "string", text |-> text]

\* values of a JSON body that are no string: a number, an object, true
NonStrings == [type : {"number", "object", "boolean"}, text : {<<>>}]

\* !query: the empty string is falsy, every other value drawn here is truthy
TruthyQuery(q) == q.type # "string" \/ q.text # <<>>

\* property names in the order sort() puts them
NameOrder == <<"a", "b", "c">>

TopNames == {"a", "b"}

NestedNames == {"a", "c"}

Numbers == {"1", "2"}

\* the orders in which an object can hold some of the names
NameSeqs(names) ==
    UNION {{ns \in [1..n -> names] : \A i, j \in 1..n : ns[i] = ns[j] => i = j}
           : n \in 0..Cardinality(names)}

NestedObjects ==
    UNION {{[i \in 1..Len(ns) |-> [name |-> ns[i], num |-> nums[i]]]
            : nums \in [1..Len(ns) -> Numbers]} : ns \in NameSeqs(NestedNames)}

TopValues ==
    [kind : {"number"}, num : Numbers, props : {<<>>}]
        \cup [kind : {"object"}, num : {"0"}, props : NestedObjects]

TopObjects ==
    UNION {{[i \in 1..Len(ns) |-> [name |-> ns[i], value |-> vals[i]]]
            : vals \in [1..Len(ns) -> TopValues]} : ns \in NameSeqs(TopNames)}

\* what a body's variables can be: left out, null, a number, a string, an object
VariablesValues ==
    [type : {"undefined", "null", "number", "string"}, fields : {<<>>}]
        \cup [type : {"object"}, fields : TopObjects]

NoVariables == [type |-> "undefined", fields |-> <<>>]

RECURSIVE DropWhitespace(_), CollapseWhitespace(_), TrimEnd(_)

DropWhitespace(s) ==
    IF s # <<>> /\ Head(s) \in Whitespace THEN DropWhitespace(Tail(s)) ELSE s

\* query.replace(/\s+/g, ' ')
CollapseWhitespace_Mut(s) == s
CollapseWhitespace(s) ==
    IF s = <<>> THEN <<>>
    ELSE IF Head(s) \in Whitespace
         THEN <<" ">> \o CollapseWhitespace(DropWhitespace(Tail(s)))
         ELSE <<Head(s)>> \o CollapseWhitespace(Tail(s))

TrimEnd(s) ==
    IF s # <<>> /\ s[Len(s)] \in Whitespace
    THEN TrimEnd(SubSeq(s, 1, Len(s) - 1))
    ELSE s

\* .trim()
Trim(s) == TrimEnd(DropWhitespace(s))

\* Object.keys(variables).sort()
SortedKeys(fields) ==
    LET Has(n) == \E i \in DOMAIN fields : fields[i].name = n
    IN SelectSeq(NameOrder, Has)

RECURSIVE StringifyNested(_, _), StringifyTop(_, _)

\* JSON.stringify of a nested object under the replacer array: the listed
\* names it holds, in the order of the list
StringifyNested(allow, props) ==
    IF allow = <<>> THEN <<>>
    ELSE LET hit == {i \in DOMAIN props : props[i].name = Head(allow)}
             rest == StringifyNested(Tail(allow), props)
         IN IF hit = {} THEN rest
            ELSE LET p == props[CHOOSE i \in hit : TRUE]
                 IN <<p.name, ":", p.num>>
                        \o (IF rest = <<>> THEN <<>> ELSE <<",">> \o rest)

StringifyValue(allow, value) ==
    IF value.kind = "number" THEN <<value.num>>
    ELSE <<"{">> \o StringifyNested(allow, value.props) \o <<"}">>

StringifyTop(allow, fields) ==
    IF allow = <<>> THEN <<>>
    ELSE LET hit == {i \in DOMAIN fields : fields[i].name = Head(allow)}
             rest == StringifyTop(Tail(allow), fields)
         IN IF hit = {} THEN rest
            ELSE LET f == fields[CHOOSE i \in hit : TRUE]
                 IN <<f.name, ":">> \o StringifyValue(SortedKeys(fields), f.value)
                        \o (IF rest = <<>> THEN <<>> ELSE <<",">> \o rest)

\* variables ? JSON.stringify(variables, Object.keys(variables).sort()) : ''
VarsString(v) ==
    CASE v.type \in {"undefined", "null"} -> <<>>
      [] v.type = "number" -> <<"5">>
      [] v.type = "string" -> <<"\"", "s", "\"">>
      [] v.type = "object" ->
            <<"{">> \o StringifyTop(SortedKeys(v.fields), v.fields) \o <<"}">>

NoKeyOut == [status |-> "none", query |-> <<>>, vars |-> <<>>]

\* the key, or the TypeError of calling replace on a value that has none
GenerateKey(q, v) ==
    IF q.type # "string"
    THEN [status |-> "TypeError", query |-> <<>>, vars |-> <<>>]
    ELSE [status |-> "ok",
          query |-> Trim(CollapseWhitespace(q.text)),
          vars |-> VarsString(v)]

\* query.toLowerCase()
ToLowerCase ==
    [c \in QueryChars |->
        CASE c = "accountLeaderboard" -> "accountleaderboard"
          [] c = "accountProfile" -> "accountprofile"
          [] c = "v3UserProfile" -> "v3userprofile"
          [] c = "roundModelPerformances" -> "roundmodelperformances"
          [] c = "userSearch" -> "usersearch"
          [] OTHER -> c]

\* the names detectQueryType looks for that are part of a lowercase word
Within(word) ==
    CASE word = "usersearch" -> {"search"}
      [] word \in {"accountleaderboard", "accountprofile", "models",
                   "v3userprofile", "roundmodelperformances"} -> {word}
      [] OTHER -> {}

\* normalizedQuery.includes(name)
Includes(s, name) == \E i \in DOMAIN s : name \in Within(s[i])

Lowered(text) == [i \in DOMAIN text |-> ToLowerCase[text[i]]]

DetectQueryType(text) ==
    LET normalizedQuery == Lowered(text)
    IN IF Includes(normalizedQuery, "accountleaderboard") THEN "leaderboard"
       ELSE IF Includes(normalizedQuery, "accountprofile")
            THEN IF Includes(normalizedQuery, "models") THEN "userModels"
                 ELSE "accountProfile"
       ELSE IF Includes(normalizedQuery, "v3userprofile")
            THEN IF Includes(normalizedQuery, "roundmodelperformances")
                 THEN "modelPerformance"
                 ELSE "userModels"
       ELSE IF Includes(normalizedQuery, "search") THEN "userSearch"
       ELSE "default"

\* the keys of CACHE_TTLS
CacheTTLKeys_Mut ==
    {"userSearch", "modelPerformance", "accountProfile", "leaderboard", "default"}
CacheTTLKeys ==
    {"userSearch", "userModels", "modelPerformance", "accountProfile",
     "leaderboard", "default"}

NoQueryType == "none"

\* the route computes the key of the body it was sent
CallGenerateKey ==
    /\ TruthyQuery(body.query)
    /\ keyOut = NoKeyOut
    /\ keyOut' = GenerateKey(body.query, body.variables)
    /\ UNCHANGED <<body, origKey, queryType, edits>>

\* the route picks the TTL of a result it is about to store
CallDetectQueryType ==
    /\ body.query.type = "string"
    /\ queryType = NoQueryType
    /\ queryType' = DetectQueryType(body.query.text)
    /\ UNCHANGED <<body, origKey, keyOut, edits>>

InsertAt(s, i, c) == SubSeq(s, 1, i - 1) \o <<c>> \o SubSeq(s, i, Len(s))

RemoveAt(s, i) == SubSeq(s, 1, i - 1) \o SubSeq(s, i + 1, Len(s))

Swap(s, i) == [s EXCEPT ![i] = s[i + 1], ![i + 1] = s[i]]

Resend(q, v) ==
    /\ body' = [query |-> q, variables |-> v]
    /\ edits' = edits \cup (IF q # body.query THEN {"query"} ELSE {"variables"})
    /\ keyOut' = NoKeyOut
    /\ UNCHANGED <<origKey, queryType>>

\* the client sends the query again with one more whitespace character at
\* an end or in a run of whitespace
PadQuery(i, w) ==
    LET text == body.query.text
    IN /\ body.query.type = "string"
       /\ Len(text) < MaxQueryLen
       /\ i \in 1..(Len(text) + 1)
       /\ \/ i = 1
          \/ i = Len(text) + 1
          \/ i > 1 /\ text[i - 1] \in Whitespace
          \/ i <= Len(text) /\ text[i] \in Whitespace
       /\ Resend(Str(InsertAt(text, i, w)), body.variables)

\* the client sends the query again with one whitespace character less at
\* an end or in a run of whitespace
SqueezeQuery(i) ==
    LET text == body.query.text
    IN /\ body.query.type = "string"
       /\ Len(text) > 1
       /\ i \in DOMAIN text
       /\ text[i] \in Whitespace
       /\ \/ i = 1
          \/ i = Len(text)
          \/ i > 1 /\ text[i - 1] \in Whitespace
          \/ i < Len(text) /\ text[i + 1] \in Whitespace
       /\ Resend(Str(RemoveAt(text, i)), body.variables)

\* the client sends the query again with one whitespace character replaced
\* by another
RespaceQuery(i, w) ==
    LET text == body.query.text
    IN /\ body.query.type = "string"
       /\ i \in DOMAIN text
       /\ text[i] \in Whitespace
       /\ text[i] # w
       /\ Resend(Str([text EXCEPT ![i] = w]), body.variables)

\* the client sends the variables again with two neighbouring fields in
\* the other order
ReorderFields(i) ==
    LET fields == body.variables.fields
    IN /\ body.variables.type = "object"
       /\ i \in 1..(Len(fields) - 1)
       /\ Resend(body.query, [body.variables EXCEPT !.fields = Swap(fields, i)])

\* the same inside the object that field j holds
ReorderNested(j, i) ==
    LET fields == body.variables.fields
    IN /\ body.variables.type = "object"
       /\ j \in DOMAIN fields
       /\ fields[j].value.kind = "object"
       /\ i \in 1..(Len(fields[j].value.props) - 1)
       /\ Resend(body.query,
                 [body.variables EXCEPT
                    !.fields[j].value.props = Swap(fields[j].value.props, i)])

\* a client sends the request with other variables: the number of one field
\* changed, the query and every name as before
SendOtherValues(v) ==
    /\ "value" \notin edits
    /\ body' = [body EXCEPT !.variables = v]
    /\ edits' = edits \cup {"value"}
    /\ keyOut' = NoKeyOut
    /\ UNCHANGED <<origKey, queryType>>

\* the number of top-level field j is another
ChangeNumber(j, n) ==
    LET fields == body.variables.fields
    IN /\ body.variables.type = "object"
       /\ j \in DOMAIN fields
       /\ fields[j].value.kind = "number"
       /\ fields[j].value.num # n
       /\ SendOtherValues([body.variables EXCEPT !.fields[j].value.num = n])

\* the number of property i of the object that field j holds is another
ChangeNestedNumber(j, i, n) ==
    LET fields == body.variables.fields
    IN /\ body.variables.type = "object"
       /\ j \in DOMAIN fields
       /\ fields[j].value.kind = "object"
       /\ i \in DOMAIN fields[j].value.props
       /\ fields[j].value.props[i].num # n
       /\ SendOtherValues([body.variables EXCEPT !.fields[j].value.props[i].num = n])

\* no request body is being looked at
KeyIdle ==
    /\ body = [query |-> Str(<<>>), variables |-> NoVariables]
    /\ origKey = NoKeyOut
    /\ keyOut = NoKeyOut
    /\ queryType = NoQueryType
    /\ edits = {}

\* ---------------------------------------------------------------------
\* The worker's fetch handler, handleCors, handleHealth and handleGraphQL
\* (part_000), in a worker that has no KV binding
\* ---------------------------------------------------------------------

MaxUpstream == 1

\* ALLOWED_ORIGINS, in the order the variable lists them
AllowedOrigins == <<"app", "admin">>

NoOrigin == "null"

Origins == {"app", "admin", "evil", NoOrigin}

Methods == {"OPTIONS", "GET", "POST"}

Paths == {"/health", "/graphql", "/other"}

\* what request.json() finds: no JSON, no query string, a query string
Bodies == {"invalid", "noQuery", "query"}

NoBody == "none"

\* the requests: the body only matters to POST /graphql
WorkerRequests ==
    {req \in [method : Methods, path : Paths, origin : Origins,
              body : Bodies \cup {NoBody}, client : Callers] :
        /\ req.client \in rlCallers
        /\ req.body # NoBody <=> (req.method = "POST" /\ req.path = "/graphql")}

NoRequestYet == [method |-> "none", path |-> "none", origin |-> NoOrigin,
                 body |-> NoBody, client |-> "none"]

NoAllowOrigin == "unset"

NoStatus == 0

\* isAllowedOrigin
IsAllowedOrigin(origin) == \E i \in DOMAIN AllowedOrigins : AllowedOrigins[i] = origin

\* the Access-Control-Allow-Origin handleCors sets
CorsOrigin_Mut(origin) == AllowedOrigins[1]
CorsOrigin(origin) == IF IsAllowedOrigin(origin) THEN origin ELSE AllowedOrigins[1]

\* a response: its status, whether it has the three X-RateLimit headers, and
\* its Access-Control-Allow-Origin
Response(req, status, limitHeaders, allowOrigin) ==
    [request |-> req, status |-> status, rateLimit |-> limitHeaders,
     allowOrigin |-> allowOrigin]

NoResponse == Response(NoRequestYet, NoStatus, FALSE, NoAllowOrigin)

HandleCors(req, status, limitHeaders) ==
    Response(req, status, limitHeaders, CorsOrigin(req.origin))

\* the steps of the handler that end without calling checkRateLimit
WorkerReturns(resp) ==
    /\ wkResp' = resp
    /\ UNCHANGED <<wkPending, rlVars>>

\* handleGraphQL up to the upstream fetch
HandleGraphQL(req) ==
    /\ ~kvConfigured
    /\ RLStart(req.client)
    /\ IF ~rlOp'.allowed
       THEN /\ wkResp' = HandleCors(req, 429, TRUE)
            /\ UNCHANGED wkPending
       ELSE IF req.body # "query"
       THEN /\ wkResp' = HandleCors(req, 400, FALSE)
            /\ UNCHANGED wkPending
       ELSE /\ BagCardinality(wkPending) < MaxUpstream
            /\ wkPending' = BagAdd(wkPending, [request |-> req])
            /\ wkResp' = NoResponse

\* the fetch handler up to its first response or to the upstream fetch
WorkerFetch(req) ==
    IF req.method = "OPTIONS"
    THEN IF ~IsAllowedOrigin(req.origin)
         THEN WorkerReturns(Response(req, 403, FALSE, NoAllowOrigin))
         ELSE WorkerReturns(HandleCors(req, 204, FALSE))
    ELSE IF req.path = "/health" /\ req.method = "GET"
    THEN WorkerReturns(HandleCors(req, 200, FALSE))
    ELSE IF req.path = "/graphql" /\ req.method = "POST"
    THEN IF ~IsAllowedOrigin(req.origin)
         THEN WorkerReturns(Response(req, 403, FALSE, NoAllowOrigin))
         ELSE HandleGraphQL(req)
    ELSE WorkerReturns(HandleCors(req, 404, FALSE))

\* the statuses the upstream API answers with
UpstreamStatuses == {200, 502}

\* the upstream answers with JSON: its status is passed on
WorkerUpstreamResponds(p, status) ==
    /\ BagIn(p, wkPending)
    /\ wkPending' = BagRemove(wkPending, p)
    /\ wkResp' = HandleCors(p.request, status, TRUE)
    /\ UNCHANGED rlVars

\* the upstream fetch rejects, or its body is no JSON: the handler's catch
WorkerUpstreamFails(p) ==
    /\ BagIn(p, wkPending)
    /\ wkPending' = BagRemove(wkPending, p)
    /\ wkResp' = HandleCors(p.request, 500, FALSE)
    /\ UNCHANGED rlVars

WorkerTick ==
    /\ RLTick
    /\ wkResp' = NoResponse
    /\ UNCHANGED wkPending

\* no request has reached the worker
WorkerIdle ==
    /\ wkResp = NoResponse
    /\ wkPending = EmptyBag

\* ---------------------------------------------------------------------
\* The route's POST handler (+server.ts), on the serverCache singleton
\* ---------------------------------------------------------------------

MaxPosts == 2

\* the keys generateKey gives the queries the clients send
PostKeys == {"q1", "q2"}

\* CACHE_TTLS[ServerCache.detectQueryType(query)] for the query of each key
PostTTL(k) == IF k = "q1" THEN SCDefaultTTL ELSE SCLongTTL

\* what the body of a request holds: no JSON, no query, a query that is
\* no string, a query string
PostBodies == {"invalid", "noQuery", "nonString", "query"}

\* what the upstream API does: answers ok with data, answers ok with an
\* errors field, answers with a status that is not ok, or the fetch rejects
UpstreamOutcomes == {"data", "errors", "notOk", "rejects"}

\* the data the upstream API returns without and with credentials
UpstreamData(hasAuth) == IF hasAuth THEN "y" ELSE "x"

\* shouldSkipCache
ShouldSkipCache_Mut(hasAuth) == FALSE
ShouldSkipCache(hasAuth) == hasAuth

\* a response: what kind it is ("429", "400", "500", "fresh", "stale", "miss",
\* "upstreamError"), for which key and data, and whether a stale hit follows
\* a stale hit of the same key
PostResponse(kind, k, hasAuth, data, again) ==
    [kind |-> kind, key |-> k, hasAuth |-> hasAuth, data |-> data, again |-> again]

NoPostResponse == PostResponse("none", NoKey, FALSE, NoData, FALSE)

PostsInProgress == postParsing + BagCardinality(postUpstream)

\* if (!rateLimitResult.allowed)
PostDenied_Mut(result) == FALSE
PostDenied(result) == ~result.allowed

\* POST up to await request.json(): the rate limit check
PostStart(c) ==
    /\ PostsInProgress < MaxPosts
    /\ RouteCheckRateLimit(c)
    /\ IF PostDenied(rtOp')
       THEN /\ postResp' = PostResponse("429", NoKey, FALSE, NoData, FALSE)
            /\ UNCHANGED postParsing
       ELSE /\ postParsing' = postParsing + 1
            /\ postResp' = NoPostResponse
    /\ UNCHANGED <<postUpstream, servedStale, scVars>>

\* the steps after request.json() that end without reading the cache
PostRejects(kind) ==
    /\ postResp' = PostResponse(kind, NoKey, FALSE, NoData, FALSE)
    /\ UNCHANGED <<postUpstream, servedStale, scVars>>

\* the cache lookup of a request that does not skip the cache and what
\* follows from it
PostLookup(k, hasAuth) ==
    /\ SCGet(k)
    /\ IF scOp'.hit /\ ~scOp'.isStale
       THEN /\ postResp' = PostResponse("fresh", k, hasAuth, scOp'.data, FALSE)
            /\ servedStale' = servedStale \ {k}
            /\ UNCHANGED postUpstream
       ELSE IF scOp'.hit /\ scOp'.isStale
       THEN /\ postResp' = PostResponse("stale", k, hasAuth, scOp'.data, k \in servedStale)
            /\ servedStale' = servedStale \cup {k}
            /\ UNCHANGED postUpstream
       ELSE /\ postUpstream' = BagAdd(postUpstream, [key |-> k, hasAuth |-> hasAuth])
            /\ postResp' = NoPostResponse
            /\ servedStale' = servedStale \ {k}

\* POST from the parsed body to its response or to the upstream fetch
PostParsed(kind, k, hasAuth) ==
    /\ postParsing > 0
    /\ postParsing' = postParsing - 1
    /\ UNCHANGED rtVars
    /\ IF kind = "invalid" \/ kind = "nonString" THEN PostRejects("500")
       ELSE IF kind = "noQuery" THEN PostRejects("400")
       ELSE IF ~ShouldSkipCache(hasAuth) THEN PostLookup(k, hasAuth)
       ELSE /\ postUpstream' = BagAdd(postUpstream, [key |-> k, hasAuth |-> hasAuth])
            /\ postResp' = NoPostResponse
            /\ UNCHANGED <<servedStale, scVars>>

\* if (!shouldSkipCache(hasAuth) && !result.errors), for an ok response
CacheResult_Mut(hasAuth, outcome) == ~ShouldSkipCache(hasAuth)
CacheResult(hasAuth, outcome) == ~ShouldSkipCache(hasAuth) /\ outcome = "data"

\* POST from the upstream answer to its response
PostUpstream(p, outcome) ==
    /\ BagIn(p, postUpstream)
    /\ postUpstream' = BagRemove(postUpstream, p)
    /\ UNCHANGED <<postParsing, servedStale, rtVars>>
    /\ IF outcome = "rejects"
       THEN /\ postResp' = PostResponse("500", p.key, p.hasAuth, NoData, FALSE)
            /\ UNCHANGED scVars
       ELSE IF outcome = "notOk"
       THEN /\ postResp' = PostResponse("upstreamError", p.key, p.hasAuth, NoData, FALSE)
            /\ UNCHANGED scVars
       ELSE /\ postResp' = PostResponse("miss", p.key, p.hasAuth,
                                        IF outcome = "data" THEN UpstreamData(p.hasAuth)
                                        ELSE NoData, FALSE)
            /\ IF CacheResult(p.hasAuth, outcome)
               THEN SCSet(p.key, UpstreamData(p.hasAuth), PostTTL(p.key))
               ELSE UNCHANGED scVars

\* Date.now() of the server process moves on
PostTick ==
    /\ RouteTick
    /\ SCTick
    /\ postResp' = NoPostResponse
    /\ UNCHANGED <<postParsing, postUpstream, servedStale>>

\* no request has reached the route
PostIdle ==
    /\ postParsing = 0
    /\ postUpstream = EmptyBag
    /\ postResp = NoPostResponse
    /\ servedStale = {}

\* no callback has been handed to subscribe
NoSubscribers ==
    /\ subscribers = [k \in Keys |-> {}]
    /\ notified = {}
    /\ registered = [pair \in Keys \X Listeners |-> "never"]

\* the singleton swrCache, used by callers of one cache key; every producer is
\* an async function, as at each call site, so it settles by resolving or rejecting
InitSWR ==
    /\ now = DedupingInterval
    /\ cache = [k \in Keys |-> NoEntry]
    /\ inflightRequests = [k \in Keys |-> NoReq]
    /\ lastFetchTime = [k \in Keys |-> 0]
    /\ requests = [r \in 1..MaxRequests |-> NoRequest]
    /\ lastOp = NoOp
    /\ usedKeys = {"k1"}
    /\ options = DefaultOptions
    /\ NoSubscribers
    /\ SCIdle
    /\ RLIdle
    /\ NoWorker
    /\ RouteIdle
    /\ KeyIdle
    /\ WorkerIdle
    /\ PostIdle

NextSWR ==
    \/ \E k \in usedKeys : Fetch(k) /\ UNCHANGED OutsideSWR
    \/ \E r \in 1..MaxRequests, v \in Values : FetchThen(r, v) /\ UNCHANGED OutsideSWR
    \/ \E r \in 1..MaxRequests, e \in Errors : FetchCatch(r, e) /\ UNCHANGED OutsideSWR
    \/ \E r \in 1..MaxRequests : FetchFinally(r) /\ UNCHANGED OutsideSWR
    \/ \E k \in usedKeys : Get(k) /\ UNCHANGED OutsideSWR
    \/ \E k \in usedKeys : Invalidate(k) /\ UNCHANGED OutsideSWR
    \/ Clear /\ UNCHANGED OutsideSWR
    \/ Tick /\ UNCHANGED OutsideSWR

SpecSWR == InitSWR /\ [][NextSWR]_vars

\* the SWRCache right after construction, no caller running
SWRIdle ==
    /\ now = DedupingInterval
    /\ cache = [k \in Keys |-> NoEntry]
    /\ inflightRequests = [k \in Keys |-> NoReq]
    /\ lastFetchTime = [k \in Keys |-> 0]
    /\ requests = [r \in 1..MaxRequests |-> NoRequest]
    /\ lastOp = NoOp
    /\ usedKeys = {}
    /\ options = DefaultOptions
    /\ NoSubscribers

InitSC == SCIdle /\ SWRIdle /\ RLIdle /\ NoWorker /\ RouteIdle /\ KeyIdle /\ WorkerIdle /\ PostIdle

NextSC ==
    \/ \E k \in SCKeys : SCGet(k) /\ UNCHANGED OutsideSC
    \/ \E k \in SCKeys, d \in SCData, ttl \in SCTTLs : SCSet(k, d, ttl) /\ UNCHANGED OutsideSC
    \/ \E k \in SCKeys : SCDelete(k) /\ UNCHANGED OutsideSC
    \/ SCClear /\ UNCHANGED OutsideSC
    \/ SCTick /\ UNCHANGED OutsideSC

SpecSC == InitSC /\ [][NextSC]_vars

\* a deployment with the KV namespace bound, explored with one client, or
\* without it, explored with three clients that share the in-memory map
Deployments ==
    /\ RLIdle
    /\ \/ kvConfigured = TRUE /\ rlCallers = {"A"}
       \/ kvConfigured = FALSE /\ rlCallers = Callers
    /\ SCIdle
    /\ SWRIdle
    /\ RouteIdle
    /\ KeyIdle
    /\ WorkerIdle
    /\ PostIdle

InitRL == Deployments /\ tracked = {}

NextRL ==
    \/ \E c \in rlCallers : RLStart(c) /\ UNCHANGED OutsideRL
    \/ \E call \in BagToSet(rlCalls) : RLKvRead(call) /\ UNCHANGED OutsideRL
    \/ \E call \in BagToSet(rlCalls) : RLKvReadFails(call) /\ UNCHANGED OutsideRL
    \/ \E call \in BagToSet(rlCalls) : RLKvPutThrows(call) /\ UNCHANGED OutsideRL
    \/ \E put \in BagToSet(puts) : RLPutLands(put) /\ UNCHANGED OutsideRL
    \/ \E put \in BagToSet(puts) : RLPutFails(put) /\ UNCHANGED OutsideRL
    \/ RLTick /\ UNCHANGED OutsideRL

SpecRL == InitRL /\ [][NextRL]_vars

\* the deployments with the KV namespace bound only
InitRLKV == InitRL /\ kvConfigured

SpecRLKV == InitRLKV /\ [][NextRL]_vars

\* the same deployments, recording which counters reached the limit
InitRLReset == Deployments /\ tracked = {"reached"}

SpecRLReset == InitRLReset /\ [][NextRL]_vars

\* the same deployments, recording the counts the calls read and the scans
\* of the in-memory map
InitRLWatch == Deployments /\ tracked = {"seen", "scan"}

SpecRLWatch == InitRLWatch /\ [][NextRL]_vars

InitRoute == RouteIdle /\ SWRIdle /\ SCIdle /\ RLIdle /\ NoWorker /\ KeyIdle /\ WorkerIdle /\ PostIdle

NextRoute ==
    \/ \E c \in RouteClients : RouteCheckRateLimit(c) /\ UNCHANGED OutsideRoute
    \/ RouteTick /\ UNCHANGED OutsideRoute

SpecRoute == InitRoute /\ [][NextRoute]_vars

\* the singleton swrCache with callers of both keys, callbacks that subscribe
\* and unsubscribe, and the invalidations of the API client
InitSub ==
    /\ now = SubStartTime
    /\ cache = [k \in Keys |-> NoEntry]
    /\ inflightRequests = [k \in Keys |-> NoReq]
    /\ lastFetchTime = [k \in Keys |-> 0]
    /\ requests = [r \in 1..MaxRequests |-> NoRequest]
    /\ lastOp = NoOp
    /\ usedKeys = Keys
    /\ options = DefaultOptions
    /\ NoSubscribers
    /\ SCIdle
    /\ RLIdle
    /\ NoWorker
    /\ RouteIdle
    /\ KeyIdle
    /\ WorkerIdle
    /\ PostIdle

\* callers that write with set, invalidate and subscribe
NextSub ==
    \/ \E k \in usedKeys, v \in Values : SetEntry(k, v) /\ UNCHANGED OutsideSWR
    \/ \E k \in usedKeys : Get(k) /\ UNCHANGED OutsideSWR
    \/ \E k \in usedKeys : Invalidate(k) /\ UNCHANGED OutsideSWR
    \/ \E p \in Patterns : InvalidatePattern(p) /\ UNCHANGED OutsideSWR
    \/ Clear /\ UNCHANGED OutsideSWR
    \/ \E k \in usedKeys, l \in Listeners : Subscribe(k, l) /\ UNCHANGED OutsideSWR
    \/ \E k \in usedKeys, l \in Listeners : Unsubscribe(k, l) /\ UNCHANGED OutsideSWR
    \/ Tick /\ UNCHANGED OutsideSWR

SpecSub == InitSub /\ [][NextSub]_vars

\* the singleton swrCache with callers that fetch one key and write, read and
\* invalidate both keys; no subscribers
InitInv ==
    /\ now = SubStartTime
    /\ cache = [k \in Keys |-> NoEntry]
    /\ inflightRequests = [k \in Keys |-> NoReq]
    /\ lastFetchTime = [k \in Keys |-> 0]
    /\ requests = [r \in 1..MaxRequests |-> NoRequest]
    /\ lastOp = NoOp
    /\ usedKeys = {"k1"}
    /\ options = DefaultOptions
    /\ NoSubscribers
    /\ SCIdle
    /\ RLIdle
    /\ NoWorker
    /\ RouteIdle
    /\ KeyIdle
    /\ WorkerIdle
    /\ PostIdle

NextInv ==
    \/ \E k \in usedKeys : Fetch(k) /\ UNCHANGED OutsideSWR
    \/ \E r \in 1..MaxRequests, v \in Values : FetchThen(r, v) /\ UNCHANGED OutsideSWR
    \/ \E r \in 1..MaxRequests, e \in Errors : FetchCatch(r, e) /\ UNCHANGED OutsideSWR
    \/ \E r \in 1..MaxRequests : FetchFinally(r) /\ UNCHANGED OutsideSWR
    \/ \E k \in Keys, v \in Values : SetEntry(k, v) /\ UNCHANGED OutsideSWR
    \/ \E k \in Keys : Get(k) /\ UNCHANGED OutsideSWR
    \/ \E k \in Keys : Invalidate(k) /\ UNCHANGED OutsideSWR
    \/ \E p \in Patterns : InvalidatePattern(p) /\ UNCHANGED OutsideSWR
    \/ Clear /\ UNCHANGED OutsideSWR
    \/ Tick /\ UNCHANGED OutsideSWR

SpecInv == InitInv /\ [][NextInv]_vars

\* an SWRCache constructed with any options, written with set and read with get
InitOptions ==
    /\ now = DedupingInterval
    /\ cache = [k \in Keys |-> NoEntry]
    /\ inflightRequests = [k \in Keys |-> NoReq]
    /\ lastFetchTime = [k \in Keys |-> 0]
    /\ requests = [r \in 1..MaxRequests |-> NoRequest]
    /\ lastOp = NoOp
    /\ usedKeys = Keys
    /\ options \in {Construct(given) : given \in GivenOptions}
    /\ NoSubscribers
    /\ SCIdle
    /\ RLIdle
    /\ NoWorker
    /\ RouteIdle
    /\ KeyIdle
    /\ WorkerIdle
    /\ PostIdle

NextOptions ==
    \/ \E k \in usedKeys, v \in Values : SetEntry(k, v) /\ UNCHANGED OutsideSWR
    \/ \E k \in usedKeys : Get(k) /\ UNCHANGED OutsideSWR
    \/ Tick /\ UNCHANGED OutsideSWR

SpecOptions == InitOptions /\ [][NextOptions]_vars

\* a deployment is the server with its response cache, or a worker without
\* a KV binding, which counts in its own map
InitCapacity ==
    \/ InitSC
    \/ Deployments /\ ~kvConfigured /\ tracked = {}

NextCapacity ==
    \/ rlCallers = {} /\ NextSC
    \/ \E c \in rlCallers : RLStart(c) /\ UNCHANGED OutsideRL
    \/ rlCallers # {} /\ RLTick /\ UNCHANGED OutsideRL

SpecCapacity == InitCapacity /\ [][NextCapacity]_vars

\* a worker without a KV binding that serves one client address
InitWorker ==
    /\ RLIdle
    /\ kvConfigured = FALSE
    /\ rlCallers = {"A"}
    /\ tracked = {}
    /\ SCIdle /\ SWRIdle /\ RouteIdle /\ KeyIdle /\ WorkerIdle /\ PostIdle

NextWorker ==
    \/ \E req \in WorkerRequests : WorkerFetch(req) /\ UNCHANGED OutsideWorker
    \/ \E p \in BagToSet(wkPending), status \in UpstreamStatuses :
            WorkerUpstreamResponds(p, status) /\ UNCHANGED OutsideWorker
    \/ \E p \in BagToSet(wkPending) : WorkerUpstreamFails(p) /\ UNCHANGED OutsideWorker
    \/ WorkerTick /\ UNCHANGED OutsideWorker

SpecWorker == InitWorker /\ [][NextWorker]_vars

\* the route's server instance serving POST requests of one client address
InitPost == InitSC

NextPost ==
    \/ PostStart("A") /\ UNCHANGED OutsidePost
    \/ \E kind \in PostBodies, k \in PostKeys, hasAuth \in BOOLEAN :
            PostParsed(kind, k, hasAuth) /\ UNCHANGED OutsidePost
    \/ \E p \in BagToSet(postUpstream), outcome \in UpstreamOutcomes :
            PostUpstream(p, outcome) /\ UNCHANGED OutsidePost
    \/ PostTick /\ UNCHANGED OutsidePost

SpecPost == InitPost /\ [][NextPost]_vars

\* a deployment is the route's server instance or a worker without a KV
\* binding; each gates its upstream calls with its own limiter
InitGate == InitPost \/ InitWorker

NextGate ==
    \/ rlCallers = {} /\ NextPost
    \/ rlCallers # {} /\ NextWorker

SpecGate == InitGate /\ [][NextGate]_vars

\* the key of request bodies and of their cosmetic variants
InitKey ==
    /\ SWRIdle
    /\ SCIdle /\ RLIdle /\ NoWorker /\ RouteIdle /\ WorkerIdle /\ PostIdle
    /\ body \in [query : {q \in {Str(t) : t \in Texts(KeyChars)} \cup NonStrings
                              : TruthyQuery(q)},
                 variables : VariablesValues]
    /\ origKey = GenerateKey(body.query, body.variables)
    /\ keyOut = NoKeyOut
    /\ queryType = NoQueryType
    /\ edits = {}

NextKey ==
    \/ CallGenerateKey /\ UNCHANGED OutsideKey
    \/ \E i \in 1..MaxQueryLen, w \in Whitespace : PadQuery(i, w) /\ UNCHANGED OutsideKey
    \/ \E i \in 1..MaxQueryLen : SqueezeQuery(i) /\ UNCHANGED OutsideKey
    \/ \E i \in 1..MaxQueryLen, w \in Whitespace : RespaceQuery(i, w) /\ UNCHANGED OutsideKey
    \/ \E i \in 1..Cardinality(TopNames) : ReorderFields(i) /\ UNCHANGED OutsideKey
    \/ \E j \in 1..Cardinality(TopNames), i \in 1..Cardinality(NestedNames) :
            ReorderNested(j, i) /\ UNCHANGED OutsideKey

SpecKey == InitKey /\ [][NextKey]_vars

\* the key of request bodies and of requests that differ from them in the
\* value of one variable, however the fields are ordered
NextKeyValues ==
    \/ CallGenerateKey /\ UNCHANGED OutsideKey
    \/ \E j \in 1..Cardinality(TopNames), n \in Numbers :
            ChangeNumber(j, n) /\ UNCHANGED OutsideKey
    \/ \E j \in 1..Cardinality(TopNames), i \in 1..Cardinality(NestedNames), n \in Numbers :
            ChangeNestedNumber(j, i, n) /\ UNCHANGED OutsideKey
    \/ \E i \in 1..Cardinality(TopNames) : ReorderFields(i) /\ UNCHANGED OutsideKey

SpecKeyValues == InitKey /\ [][NextKeyValues]_vars

\* the query type of query strings
InitQueryType ==
    /\ SWRIdle
    /\ SCIdle /\ RLIdle /\ NoWorker /\ RouteIdle /\ WorkerIdle /\ PostIdle
    /\ body \in [query : {Str(t) : t \in Texts(QueryChars)}, variables : {NoVariables}]
    /\ origKey = NoKeyOut
    /\ keyOut = NoKeyOut
    /\ queryType = NoQueryType
    /\ edits = {}

NextQueryType == CallDetectQueryType /\ UNCHANGED OutsideKey

SpecQueryType == InitQueryType /\ [][NextQueryType]_vars

(***************************************************************************)
(* Claims about SWRCache, checked under SpecSWR                            *)
(***************************************************************************)
ActiveChains(k) == {r \in 1..MaxRequests : requests[r].status # "unused" /\ requests[r].key = k}

GetNow(c, k, t) == SWRGetState(c, k, t, StaleTime, CacheTime)

\* C1: fetch calls on a key issued while a request of that key is in flight
\* start no producer: each of them gets the promise of that one request (and
\* so its outcome) or, once the producer has resolved, the value it resolved
\* to; no key ever has two promise chains at once.
C1_Dedup ==
    [][ /\ \A k \in Keys : Cardinality(ActiveChains(k))' <= 1
        /\ \A k \in Keys :
             LET r == inflightRequests[k] IN
             (lastOp'.op = "fetch" /\ lastOp'.key = k /\ r # NoReq) =>
                 /\ lastOp'.kind # "start"
                 /\ \A x \in 1..MaxRequests : requests'[x].status = requests[x].status
                 /\ inflightRequests' = inflightRequests
                 /\ lastOp'.kind \in {"dedupe", "join"} => lastOp'.req = r
                 /\ lastOp'.kind = "hit" =>
                       /\ requests[r].status = "resolved"
                       /\ lastOp'.value = requests[r].value ]_vars

\* three callers hold the promise of one request, and it has settled
C1_Witness ==
    \E r \in 1..MaxRequests :
        /\ requests[r].joiners = 2
        /\ requests[r].status \in {"resolved", "rejected"}

\* C2: a value that get returns is not changed by any step of a refresh that
\* fails (start, join, the catch callback, the finally callback); the catch
\* callback stores the rejection as the entry's error and settles the promise
\* of the callers with that same rejection.
C2_StaleServeOnError ==
    [][ \A k \in Keys :
          LET before == GetNow(cache, k, now)
              after == GetNow(cache', k, now')
          IN (lastOp'.key = k /\ before.data # Undefined) =>
                /\ lastOp'.op \in {"fetch", "catch"} => after.data = before.data
                /\ (lastOp'.op = "finally" /\ lastOp'.kind = "rejected") =>
                       after.data = before.data
                /\ lastOp'.op = "catch" =>
                       /\ after.error \in Errors
                       /\ requests'[lastOp'.req].status = "rejected"
                       /\ requests'[lastOp'.req].error = after.error ]_vars

\* a refresh failed and the value fetched before is still served, with the error
C2_Witness ==
    \E r \in 1..MaxRequests :
        /\ requests[r].status = "rejected"
        /\ GetNow(cache, requests[r].key, now).data \in Values
        /\ GetNow(cache, requests[r].key, now).error = requests[r].error

\* the entry of k was written without error and is at most staleTime old
WrittenFresh(k) ==
    /\ cache[k].present
    /\ cache[k].data \in Values
    /\ cache[k].error = NoError
    /\ now - cache[k].timestamp <= StaleTime

\* C6: a fetch on a key whose entry was written by a successful fetch and is
\* at most staleTime old starts no producer and, when it answers from the
\* cache, answers the cached value, whatever the value (falsy ones too).
C6_FreshHitAnyValue ==
    [][ \A k \in Keys :
          (lastOp'.op = "fetch" /\ lastOp'.key = k /\ WrittenFresh(k)) =>
              /\ lastOp'.kind # "start"
              /\ lastOp'.kind = "hit" => lastOp'.value = cache[k].data ]_vars

\* C7: a producer is started for a key only when the previous producer of the
\* key was started at least dedupingInterval earlier.
C7_DedupeWindow ==
    [][ \A k \in Keys :
          (lastOp'.op = "fetch" /\ lastOp'.kind = "start" /\ lastOp'.key = k
             /\ lastFetchTime[k] > 0) =>
              now - lastFetchTime[k] >= DedupingInterval ]_vars

\* C8: when no promise chain of a key is left (every producer started for it
\* has run its finally callback), the in-flight registry has no entry for the
\* key and the key's entry, if any, is not marked validating.
C8_Cleanup ==
    \A k \in Keys :
        ActiveChains(k) = {} =>
            /\ inflightRequests[k] = NoReq
            /\ ~(cache[k].present /\ cache[k].isValidating)

\* a finally callback has just run on a key that has an entry
C8_Witness ==
    /\ lastOp.op = "finally"
    /\ cache[lastOp.key].present
    /\ ActiveChains(lastOp.key) = {}

\* the example of the specification, in minutes
ExampleCache(k) == [x \in Keys |-> IF x = k THEN [NoEntry EXCEPT !.present = TRUE, !.data = "a"]
                                   ELSE NoEntry]

\* C9: get classifies by the age a = now - timestamp: a <= staleTime gives the
\* value and isStale = false, staleTime < a <= cacheTime the value and
\* isStale = true, a > cacheTime no value and the entry is removed, a missing
\* key no value; with staleTime 5 and cacheTime 30 an entry is fresh at 4,
\* stale but present at 6 and absent at 31.
C9_GetClassification ==
    /\ [][ \A k \in Keys :
             LET a == now - cache[k].timestamp IN
             (lastOp'.op = "get" /\ lastOp'.key = k) =>
                 /\ ~cache[k].present =>
                       lastOp'.value = Undefined /\ cache' = cache
                 /\ (cache[k].present /\ a <= StaleTime) =>
                       /\ lastOp'.value = cache[k].data /\ ~lastOp'.isStale
                       /\ cache' = cache
                 /\ (cache[k].present /\ StaleTime < a /\ a <= CacheTime) =>
                       /\ lastOp'.value = cache[k].data /\ lastOp'.isStale
                       /\ cache' = cache
                 /\ (cache[k].present /\ a > CacheTime) =>
                       /\ lastOp'.value = Undefined
                       /\ ~cache'[k].present ]_vars
    /\ \A k \in Keys :
         /\ SWRGetState(ExampleCache(k), k, 4, 5, 30).data = "a"
         /\ ~SWRGetState(ExampleCache(k), k, 4, 5, 30).isStale
         /\ SWRGetState(ExampleCache(k), k, 6, 5, 30).data = "a"
         /\ SWRGetState(ExampleCache(k), k, 6, 5, 30).isStale
         /\ SWRGetState(ExampleCache(k), k, 31, 5, 30).data = Undefined
         /\ ~SWRGetCache(ExampleCache(k), k, 31, 30)[k].present

\* a get has just returned a value that is stale but present
C9_Witness ==
    /\ lastOp.op = "get"
    /\ lastOp.isStale
    /\ lastOp.value \in Values

(***************************************************************************)
(* Claims about ServerCache, checked under SpecSC                          *)
(***************************************************************************)
\* C4: the number of resident keys never exceeds maxEntries.
C4_SizeBound == Cardinality(Resident(scCache)) <= SCMaxEntries

\* a new key has just been inserted into a full cache, which is full again
C4_Witness ==
    /\ scOp.op = "set"
    /\ Len(insertLog) > SCMaxEntries
    /\ Cardinality(Resident(scCache)) = SCMaxEntries

LastKeys(log, n) ==
    {log[i] : i \in {j \in 1..Len(log) : j > Len(log) - n}}

\* C5: a set of a resident key evicts nothing; a set of a new key evicts
\* exactly one key when the cache is at capacity and none otherwise, and the
\* evicted key was last touched before every key that stays; so after
\* inserting maxEntries + k distinct keys into an empty cache, with nothing
\* in between, exactly the k first inserted are gone.
C5_EvictionOrder ==
    /\ [][ scOp'.op = "set" =>
             LET k == scOp'.key
                 res == Resident(scCache)
                 gone == res \ Resident(scCache')
             IN /\ k \in res => gone = {}
                /\ (k \notin res /\ Cardinality(res) < SCMaxEntries) => gone = {}
                /\ (k \notin res /\ Cardinality(res) >= SCMaxEntries) =>
                       Cardinality(gone) = 1
                /\ \A e \in gone : \A j \in res \ {e} : <<e, j>> \in olderThan
                /\ k \in Resident(scCache') ]_vars
    /\ [](insertLog # <<>> => Resident(scCache) = LastKeys(insertLog, SCMaxEntries))

\* maxEntries + 2 distinct keys were inserted in a row
C5_Witness ==
    /\ Len(insertLog) = SCMaxEntries + 2
    /\ Resident(scCache) = LastKeys(insertLog, SCMaxEntries)

\* C10: a get that returns an entry reports isStale = true exactly when
\* now > hardExpiry (the entry's expires = set time + ttl).
C10_StaleAtHardExpiry ==
    [][ (scOp'.op = "get" /\ scOp'.hit) =>
            (scOp'.isStale <=> scNow > scCache[scOp'.key].expires) ]_vars

\* C11: get(key) returns null exactly when the key is not in the map or
\* now > expires + staleWindow; in the second case the key leaves both the
\* entry map and the recency list; in every other case the stored value is
\* returned and the entry stays as it was.
C11_GetExpiry ==
    [][ scOp'.op = "get" =>
            LET k == scOp'.key
                e == scCache[k]
                past == e.present /\ scNow > e.expires + SCStaleWindow
            IN /\ ~scOp'.hit <=> (~e.present \/ past)
               /\ past => /\ ~scCache'[k].present
                          /\ IndexOf(accessOrder', k, 1) = 0
               /\ scOp'.hit => /\ scOp'.data = e.data
                               /\ scCache'[k] = e ]_vars

\* a get has just purged one of two resident entries
C11_Witness ==
    /\ scOp.op = "get"
    /\ scOp.purged
    /\ ~scCache[scOp.key].present
    /\ Cardinality(Resident(scCache)) = 1
    /\ Len(accessOrder) = 1

(***************************************************************************)
(* Claims about the worker's checkRateLimit, checked under SpecRL          *)
(***************************************************************************)
\* C3: for every caller and window, at most `limit` calls are answered
\* allowed = true, whatever the interleaving and the mix of KV and fallback.
C3_AtMostLimitAllowed == \A key \in RLKeys : allowedCount[key] <= Limit

\* the counter of the decision d after the call that made it: the count the
\* call wrote into the map m, or the count it handed to the deferred put
CountAfter(d, m, store) ==
    IF d.path = "memory"
    THEN MapCount(m, RLKey(d.caller, d.at))
    ELSE store[RLKey(d.caller, d.at)] + 1

\* C12: every allowed result reports remaining = limit - (the caller's
\* counter after this increment), on the KV path and on the in-memory path.
C12_Remaining ==
    [][ rlOp'.allowed =>
            rlOp'.remaining = Limit - CountAfter(rlOp', inMemoryRateLimit', kv) ]_vars

\* the decision d is for a caller whose stored count reached limit in the
\* window just before the one of d
AfterFullWindow(d, reached) ==
    <<d.caller, WindowStart(d.at) - WindowSeconds>> \in reached

\* C13: for a caller whose counter reached limit in window w, the first
\* call decided in window w + 1 is allowed with remaining = limit - 1, on the
\* KV path and on the in-memory path.
C13_WindowReset ==
    [][ ( /\ rlOp'.path # "none"
          /\ AfterFullWindow(rlOp', reachedLimit)
          /\ allowedCount[<<rlOp'.caller, WindowStart(rlOp'.at)>>] = 0 ) =>
            /\ rlOp'.allowed
            /\ rlOp'.remaining = Limit - 1 ]_vars

\* the KV path has just allowed the first call of a window that follows a
\* window in which the caller's stored count reached limit
C13_Witness ==
    /\ rlOp.path = "kv"
    /\ rlOp.allowed
    /\ rlOp.remaining = Limit - 1
    /\ AfterFullWindow(rlOp, reachedLimit)
    /\ allowedCount[<<rlOp.caller, WindowStart(rlOp.at)>>] = 1

\* the step ends the suspended call named by the decision d
Completes(d, before, after) ==
    /\ [caller |-> d.caller, at |-> d.at] \in BagToSet(before)
    /\ after = BagRemove(before, [caller |-> d.caller, at |-> d.at])

\* C14: every call of checkRateLimit ends with a decision: without a KV
\* binding the call decides at once on the in-memory map; a suspended call
\* never ends without a decision; a decision made after a failed read or a
\* throwing put is the one the in-memory map gives; and a deferred put that
\* fails or lands changes no decision, no counter of allowed calls and no
\* other call.
C14_StoreFailure ==
    [][ /\ (~kvConfigured /\ rlNow' = rlNow) =>
              rlOp'.path = "memory" /\ rlOp'.caller \in rlCallers
        /\ rlCalls' # rlCalls =>
              \/ BagCardinality(rlCalls') = BagCardinality(rlCalls) + 1 /\ rlOp' = NoDecision
              \/ rlOp'.path \in {"kv", "memory"} /\ Completes(rlOp', rlCalls, rlCalls')
        /\ rlOp'.path = "memory" =>
              LET key == RLKey(rlOp'.caller, rlOp'.at)
              IN /\ rlOp'.allowed <=> MapCount(inMemoryRateLimit, key) < Limit
                 /\ rlOp'.allowed => MapCount(inMemoryRateLimit', key)
                                        = MapCount(inMemoryRateLimit, key) + 1
        /\ puts' # puts /\ BagCardinality(puts') < BagCardinality(puts) =>
              /\ rlCalls' = rlCalls
              /\ allowedCount' = allowedCount
              /\ inMemoryRateLimit' = inMemoryRateLimit ]_vars

\* with a KV binding, a call has just been decided by the in-memory map while
\* an earlier allowed decision waits for its put
C14_Witness ==
    /\ kvConfigured
    /\ rlOp.path = "memory"
    /\ rlOp.allowed
    /\ puts # EmptyBag
    /\ MapCount(inMemoryRateLimit, RLKey(rlOp.caller, rlOp.at)) = 1

\* C15: the in-memory rate-limit map never holds more than
\* MAX_IN_MEMORY_RATE_LIMIT_ENTRIES keys.
C15_FallbackBounded == Len(inMemoryRateLimit) <= MaxInMemoryEntries

\* the map is at its ceiling after a call that had to evict the counter of a
\* caller whose window has not ended
C15_Witness ==
    /\ rlOp.path = "memory"
    /\ rlOp.allowed
    /\ Len(inMemoryRateLimit) = MaxInMemoryEntries
    /\ \E key \in RLKeys :
          /\ allowedCount[key] > 0
          /\ rlNow < key[2] + WindowSeconds
          /\ MapIndex(inMemoryRateLimit, key, 1) = 0

\* C16: for every caller and window, the stored count that successive calls
\* read inside that window never decreases, in the KV namespace and in the
\* in-memory map.
C16_CounterMonotone ==
    [][ rlNow' = rlNow =>
            \A p \in Stores, key \in RLKeys : lastSeen'[p][key] >= lastSeen[p][key] ]_vars

\* the time of the latest full scan of the in-memory map, of either kind
LastFullScan == IF capacityScan.at > lastRateLimitCleanup
                THEN capacityScan.at ELSE lastRateLimitCleanup

\* C17: a full scan of the worker's counter map, by the sweep or by any
\* other code a request runs, comes no sooner than the sweep interval after
\* the full scan before it, and no request scans the map twice.
C17_SweepThrottled ==
    [][ LET swept == lastRateLimitCleanup' # lastRateLimitCleanup
        IN /\ (swept \/ capacityScan'.ran) => ~(rlNow - LastFullScan < CleanupInterval)
           /\ ~(swept /\ capacityScan'.ran) ]_vars

(***************************************************************************)
(* Claims about the route's checkRateLimit, checked under SpecRoute        *)
(***************************************************************************)
\* C18: the decision of a call (allowed and remaining) is the one the call
\* makes on the map as it was before the call, whether or not the sweep ran
\* during that call, a call made exactly at a counter's resetAt included.
C18_SweepKeepsDecision ==
    [][ rtOp'.op = "check" =>
            LET d == RouteDecide(rateLimit, rtOp'.client, rtNow, FALSE)
            IN rtOp'.allowed = d.allowed /\ rtOp'.remaining = d.remaining ]_vars

(***************************************************************************)
(* Claims about the subscriptions and invalidations of SWRCache            *)
(***************************************************************************)
\* the keys the step wrote with set, invalidated, or removed with
\* invalidatePattern or clear
Affected(op, before, after) ==
    IF op.op \in {"set", "invalidate"} THEN {op.key}
    ELSE IF op.op \in {"invalidatePattern", "clear"}
    THEN {k \in Keys : before[k].present /\ ~after[k].present}
    ELSE {}

\* C19: every set(key) and invalidate(key), and every invalidatePattern or
\* clear that removes key, calls each callback that was subscribed to key
\* and has not been unsubscribed; no callback is called after its
\* unsubscribe function was called, and the other callbacks of the key keep
\* being called.
C19_Subscriptions ==
    [][ /\ \A k \in Affected(lastOp', cache, cache'), l \in Listeners :
              registered[<<k, l>>] = "subscribed" => <<k, l>> \in notified'
        /\ \A pair \in notified' : registered[pair] # "unsubscribed" ]_vars

\* a set of a key has just called the one callback still subscribed to it,
\* after the other callback of the key was unsubscribed
C19_Witness ==
    /\ lastOp.op = "set"
    /\ registered[<<lastOp.key, "L1">>] = "unsubscribed"
    /\ registered[<<lastOp.key, "L2">>] = "subscribed"
    /\ notified = {<<lastOp.key, "L2">>}

\* C20: invalidate(key) removes the entry of key and no other;
\* invalidatePattern(p) removes the entries of the keys that match p and no
\* other; clear() removes every entry; an entry that is not removed keeps
\* its value, error, timestamp and validating flag; and a key without an
\* entry gets none, and get returns no value for it, until a set or a
\* settling producer writes it.
C20_InvalidationExact ==
    [][ /\ lastOp'.op = "invalidate" =>
              \A k \in Keys : cache'[k] = IF k = lastOp'.key THEN NoEntry ELSE cache[k]
        /\ lastOp'.op = "invalidatePattern" =>
              \A k \in Keys : cache'[k] = IF cache[k].present /\ Matches(lastOp'.key, k)
                                           THEN NoEntry ELSE cache[k]
        /\ lastOp'.op = "clear" => \A k \in Keys : cache'[k] = NoEntry
        /\ \A k \in Keys :
              ~cache[k].present =>
                 /\ (lastOp'.op = "get" /\ lastOp'.key = k) => lastOp'.value = Undefined
                 /\ cache'[k].present =>
                       lastOp'.op \in {"set", "then", "catch"} /\ lastOp'.key = k ]_vars

\* invalidatePattern has just removed the model-performance entry and left
\* the user-search entry, which is being revalidated
C20_Witness ==
    /\ lastOp.op = "invalidatePattern"
    /\ lastOp.key = "model-performance:"
    /\ lastOp.kind = "removed"
    /\ ~cache["k2"].present
    /\ cache["k1"].present
    /\ cache["k1"].isValidating

\* C21: request bodies whose queries differ only in runs of whitespace or
\* in leading or trailing whitespace, and whose variables hold the same
\* fields and values in another order, get the same key from generateKey.
C21_KeyCanonical == keyOut.status = "ok" => keyOut = origKey

C21_Witness ==
    /\ keyOut.status = "ok"
    /\ keyOut = origKey
    /\ edits = {"query", "variables"}
    /\ body.query.text # keyOut.query
    /\ body.variables.type = "object"
    /\ \E j \in DOMAIN body.variables.fields :
            /\ body.variables.fields[j].value.kind = "object"
            /\ Len(body.variables.fields[j].value.props) > 1

\* C22: generateKey never throws, whatever the body holds as query and
\* as variables.
C22_KeyTotal == keyOut.status # "TypeError"

\* C23: detectQueryType returns a key of CACHE_TTLS for every query
\* string, and 'default' for one that holds none of the names it looks for.
C23_QueryTypeTotal ==
    queryType # NoQueryType =>
        /\ queryType \in CacheTTLKeys
        /\ (\A i \in DOMAIN body.query.text :
                body.query.text[i] \notin {"accountLeaderboard", "accountProfile",
                                           "v3UserProfile", "userSearch"})
              => queryType = "default"

C23_Witness ==
    /\ queryType = "default"
    /\ \E i \in DOMAIN body.query.text : body.query.text[i] = "models"
    /\ \E i \in DOMAIN body.query.text : body.query.text[i] = "roundModelPerformances"

\* C24: a ServerCache.set is never refused: a get of the same key right
\* after it returns the value just written, also when the set found the
\* cache full; and a request the worker's fallback limiter allows leaves
\* the caller's counter in the map, also when the map was full.
C24_WriteNeverRejected ==
    [][/\ (scOp.op = "set" /\ scOp'.op = "get" /\ scOp'.key = scOp.key)
            => (scOp'.hit /\ scOp'.data = scOp.data)
       /\ (rlOp'.allowed /\ rlOp'.path = "memory")
            => MapIndex(inMemoryRateLimit', RLKey(rlOp'.caller, rlOp'.at), 1) # 0]_vars

C24_Witness ==
    /\ scOp.op = "get"
    /\ scOp.hit
    /\ scOp.evicted
    /\ Cardinality(Resident(scCache)) = SCMaxEntries

C26_RateLimitHeaders == wkResp # NoResponse => wkResp.rateLimit

\* C27: a POST /graphql is proxied only if its Origin is one of
\* ALLOWED_ORIGINS, and its response then has that origin as
\* Access-Control-Allow-Origin; with any other Origin or none, the answer is
\* 403, no counter of the limiter changes and no upstream call is made.
C27_OriginGate ==
    [][/\ \A p \in BagToSet(wkPending') : IsAllowedOrigin(p.request.origin)
       /\ (wkResp'.request.path = "/graphql" /\ wkResp'.request.method = "POST")
            => IF IsAllowedOrigin(wkResp'.request.origin)
               THEN wkResp'.allowOrigin = wkResp'.request.origin
               ELSE /\ wkResp'.status = 403
                    /\ wkPending' = wkPending
                    /\ inMemoryRateLimit' = inMemoryRateLimit
                    /\ allowedCount' = allowedCount]_vars

C27_Witness ==
    /\ wkResp.request.path = "/graphql"
    /\ wkResp.request.method = "POST"
    /\ wkResp.request.origin = AllowedOrigins[2]
    /\ wkResp.status = 200
    /\ wkResp.allowOrigin = AllowedOrigins[2]

\* C28: for every key that has a cache entry, the entry's isValidating is
\* true exactly when the in-flight registry holds a request for the key.
C28_ValidatingTracksInflight ==
    \A k \in Cached(cache) : cache[k].isValidating <=> inflightRequests[k] # NoReq

\* C29: after the route served a stale hit for a key, the next
\* unauthenticated request for that key goes upstream and rewrites the
\* entry: no key gets two stale hits in a row.
C29_StaleRefreshed == ~(postResp.kind = "stale" /\ postResp.again)

\* C30: unauthenticated requests with the same cache key that are in
\* progress at the same time cause at most one upstream fetch.
C30_MissDeduplicated ==
    \A p \in BagToSet(postUpstream) :
        ~p.hasAuth => CopiesIn(p, postUpstream) <= 1

\* C31: in the route and in the worker a request the limiter denies gets a
\* 429 and causes no upstream fetch and no cache read or write; the limiter
\* decides before the body is parsed and before the cache is read, so every
\* request that gets that far, a cache hit or an invalid body included, has
\* taken one unit of its caller's quota.
C31_LimiterGates ==
    [][/\ postResp'.kind = "429"
            => /\ postUpstream' = postUpstream
               /\ postParsing' = postParsing
               /\ <<scCache', accessOrder', scOp'>> = <<scCache, accessOrder, scOp>>
       /\ (rtOp' # rtOp /\ rtOp'.op = "check" /\ ~rtOp'.allowed)
            => postResp'.kind = "429"
       /\ postParsing' > postParsing
            => /\ rtOp'.allowed
               /\ rtOp'.at = rtNow
               /\ rateLimit'[rtOp'.client].count =
                    IF RouteNewWindow(RouteCleanup(rateLimit, rtNow, rtLastCleanup)[rtOp'.client],
                                      rtNow)
                    THEN 1
                    ELSE rateLimit[rtOp'.client].count + 1
       /\ postParsing' < postParsing => rateLimit' = rateLimit
       /\ wkResp'.status = 429 => (~rlOp'.allowed /\ wkPending' = wkPending)
       /\ (rlOp' # rlOp /\ rlOp'.path # "none" /\ ~rlOp'.allowed) => wkResp'.status = 429
       /\ (wkResp'.status = 400 \/ BagCardinality(wkPending') > BagCardinality(wkPending))
            => /\ rlOp'.allowed
               /\ rlOp'.at = rlNow
               /\ MapCount(inMemoryRateLimit', RLKey(rlOp'.caller, rlNow)) >= 1]_vars

C31_Witness ==
    /\ postResp.kind = "429"
    /\ ~rtOp.allowed
    /\ PostsInProgress > 0
    /\ Resident(scCache) # {}

\* the upstream calls of p in flight
Pending(bag, p) == IF BagIn(p, bag) THEN CopiesIn(p, bag) ELSE 0

\* this step belongs to a request that carries both credentials: it sends
\* the request upstream or handles the upstream's answer to it
AuthenticatedStep ==
    \E p \in BagToSet(postUpstream) \cup BagToSet(postUpstream') :
        p.hasAuth /\ Pending(postUpstream', p) # Pending(postUpstream, p)

\* C32: a route request that carries both credentials is never answered from
\* the cache and never reads or writes the cache, so the cache never holds a
\* response obtained with credentials and every response served from it was
\* obtained without, whatever the interleaving of requests with one key.
C32_AuthBypassesCache ==
    [][/\ AuthenticatedStep
            => /\ <<scCache', accessOrder', scOp'>> = <<scCache, accessOrder, scOp>>
               /\ postResp'.kind \notin {"fresh", "stale"}
       /\ postResp'.hasAuth => postResp'.kind \notin {"fresh", "stale"}
       /\ \A k \in SCKeys : scCache'[k].present => scCache'[k].data # UpstreamData(TRUE)
       /\ postResp'.kind \in {"fresh", "stale"} => postResp'.data = UpstreamData(FALSE)
       /\ (~postResp'.hasAuth /\ postResp'.kind = "miss" /\ postResp'.data # NoData)
            => postResp'.data = UpstreamData(FALSE)]_vars

C32_Witness ==
    /\ postResp = PostResponse("miss", "q1", TRUE, UpstreamData(TRUE), FALSE)
    /\ scCache["q1"].present
    /\ BagIn([key |-> "q1", hasAuth |-> FALSE], postUpstream)

\* this step handles what the upstream did with a call
UpstreamAnswered ==
    /\ postParsing' = postParsing
    /\ BagCardinality(postUpstream') < BagCardinality(postUpstream)

\* C33: the route writes to serverCache only while it handles an ok upstream
\* response whose result has no errors; a response that is not ok, a result
\* with errors and a rejected fetch leave the entries and the recency order
\* as they were, and so does every request answered 400, 429 or 500.
C33_OnlySuccessCached ==
    [][/\ (UpstreamAnswered /\ ~(postResp'.kind = "miss" /\ postResp'.data # NoData))
            => <<scCache', accessOrder', scOp'>> = <<scCache, accessOrder, scOp>>
       /\ postResp'.kind \in {"upstreamError", "500", "400", "429"}
            => <<scCache', accessOrder'>> = <<scCache, accessOrder>>
       /\ (scOp'.op = "set" /\ scOp' # scOp)
            => /\ UpstreamAnswered
               /\ postResp'.kind = "miss"
               /\ postResp'.data = scOp'.data
               /\ postResp'.data # NoData
       /\ (UpstreamAnswered /\ postResp'.kind = "miss" /\ postResp'.data # NoData
                /\ ~postResp'.hasAuth)
            => /\ scCache'[postResp'.key].present
               /\ scCache'[postResp'.key].data = postResp'.data
               /\ accessOrder'[Len(accessOrder')] = postResp'.key]_vars

C33_Witness ==
    /\ postResp.kind = "miss"
    /\ postResp.data = NoData
    /\ ~postResp.hasAuth
    /\ Cardinality(Resident(scCache)) = 2
    /\ accessOrder[1] = postResp.key

\* C34: a request whose variables differ from another's in the value of a
\* field, at the top level or inside a nested object, gets a different key.
C34_KeySeparates ==
    (keyOut.status = "ok" /\ "value" \in edits) => keyOut # origKey

\* C35: after any sequence of get, set, delete and clear, accessOrder holds
\* exactly the keys of the entry map, each of them once.
C35_OrderMatchesMap ==
    /\ {accessOrder[i] : i \in DOMAIN accessOrder} = Resident(scCache)
    /\ \A i, j \in DOMAIN accessOrder : accessOrder[i] = accessOrder[j] => i = j

C35_Witness ==
    /\ scOp.op = "get"
    /\ scOp.hit
    /\ scOp.evicted
    /\ Len(accessOrder) = SCMaxEntries
    /\ accessOrder[1] # scOp.key

\* C36: in a worker that counts in its fallback map, the decision a caller
\* gets follows from that caller's own requests of the window alone: it is
\* allowed exactly while fewer than the limit of its requests of the window
\* were allowed, however many requests other callers make.
C36_CallerIsolation ==
    [][(~kvConfigured /\ rlOp' # rlOp /\ rlOp'.path = "memory")
            => (rlOp'.allowed <=> allowedCount[RLKey(rlOp'.caller, rlOp'.at)] < Limit)]_vars

\* C37: a request of a client whose window is open (the entry is there and
\* the time is not after its resetAt) is counted in that window: allowed
\* with one less remaining while fewer than RATE_LIMIT_MAX were allowed,
\* denied with retryAfter of at least 1 from then on; any other request
\* opens a window that ends one window length later, with
\* RATE_LIMIT_MAX - 1 remaining.
C37_RouteWindow ==
    [][rtOp'.op = "check" =>
            LET entry == rateLimit[rtOp'.client]
            IN IF entry.present /\ rtNow <= entry.resetAt
               THEN /\ rtOp'.resetAt = entry.resetAt
                    /\ IF entry.count < RouteLimitMax
                       THEN /\ rtOp'.allowed
                            /\ rtOp'.remaining = RouteLimitMax - entry.count - 1
                       ELSE /\ ~rtOp'.allowed
                            /\ rtOp'.retryAfter >= 1
               ELSE /\ rtOp'.allowed
                    /\ rtOp'.remaining = RouteLimitMax - 1
                    /\ rtOp'.resetAt = rtNow + RouteWindowMs]_vars

\* the step follows an invalidation of the key it works on
JustInvalidated ==
    \/ lastOp.op = "clear"
    \/ lastOp.op = "invalidate" /\ lastOp.key = lastOp'.key

\* C38: the fetch that follows invalidate(key) or clear() starts a request
\* of its own producer, and no then-callback of a producer started before
\* the invalidation writes the cache after it.
C38_InvalidationHolds ==
    [][/\ (JustInvalidated /\ lastOp'.op = "fetch") => lastOp'.kind = "start"
       /\ (JustInvalidated /\ lastOp'.op = "then") => cache' = cache]_vars

\* what get classifies the entry of k as at time t, and whether it purges it
Classified(c, k, t) ==
    <<SWRGetState(c, k, t, options.staleTime, options.cacheTime).isStale,
      SWRGetCache(c, k, t, options.cacheTime)[k].present>>

\* C39: when a producer rejects for a key whose entry holds a value, the
\* catch callback and the finally callback after it leave the entry's value
\* and timestamp as they were, so get classifies the value as stale and
\* purges it at the same times as without the refresh.
C39_FailedRefreshKeepsAge ==
    [][LET k == lastOp'.key
       IN (/\ \/ lastOp'.op = "catch"
              \/ lastOp'.op = "finally" /\ lastOp'.kind = "rejected"
           /\ cache[k].present
           /\ cache[k].data # Undefined)
            => /\ cache'[k].present
               /\ cache'[k].data = cache[k].data
               /\ cache'[k].timestamp = cache[k].timestamp
               /\ \A t \in now..(now + CacheTime + 1) :
                        Classified(cache', k, t) = Classified(cache, k, t)]_vars

C39_Witness ==
    /\ lastOp.op = "catch"
    /\ cache[lastOp.key].present
    /\ cache[lastOp.key].data # Undefined
    /\ cache[lastOp.key].error # NoError
    /\ cache[lastOp.key].timestamp < now
    /\ GetStale(cache[lastOp.key], now, options.staleTime)

====
